---- MODULE Spec2Model ----
(***************************************************************************)
(* Greenlight JSON API: the versioned records of internal/data (movies,    *)
(* users), the token and permission stores, the per-client rate limiter    *)
(* and the guard chain of cmd/api (recoverPanic, rateLimit, authenticate,  *)
(* require* guards, handlers).                                             *)
(*                                                                         *)
(* The database is the external collaborator: every SQL statement is one   *)
(* atomic step on the tables below.  Time is in milliseconds.              *)
(***************************************************************************)
EXTENDS Integers, Sequences, FiniteSets, TLC

VARIABLES
  movies,     \* table movies:  id -> row
  users,      \* table users:   id -> row
  caller,     \* the callers of MovieModel / UserModel (one struct each)
  now,        \* the wall clock, in milliseconds since the process started
  config,     \* app.config
  mu,         \* rateLimit: the mutex, "" when free, else its holder
  clients,    \* rateLimit: the map ip -> client
  sweep,      \* rateLimit: the background goroutine
  req,        \* the requests in flight
  admitted,   \* per ip, the number of requests Limiter.Allow has admitted
  served,     \* the number of requests received
  tokens,     \* table tokens: a set of rows
  permissions,\* table users_permissions joined with permissions
  issued,     \* the tokens TokenModel.New has returned, with their time
  db,         \* the database: "up", or "down" when its statements fail
  mails,      \* the background tasks that have a mail to send
  srv,        \* serve: the http.Server and the goroutine of the signals
  kept        \* for comparison: the buckets of a limiter that never sweeps

vars == <<movies, users, caller, now, config, mu, clients, sweep, req,
          admitted, served, tokens, permissions, issued, db, mails, srv,
          kept>>

limVars == <<now, config, mu, clients, sweep, admitted, served>>
\* what the rate limiter leaves alone
dbVars == <<movies, users, caller, tokens, permissions, issued, db, mails,
           srv, kept>>
\* what the callers of the models leave alone
offOCC == <<limVars, req, tokens, permissions, issued, db, mails, srv,
           kept>>

----------------------------------------------------------------------------
(* Bounds of the model *)

MaxVersion == 4
MaxMovies == 2
MaxUsers == 2
\* rateLimit: the largest configured burst, the requests received, the
\* minutes the clock runs and the quarter seconds it shows in each minute
MaxBurst == 2
MaxRequests == 3
MaxMinutes == 4
MaxSubTicks == 2
\* the tokens issued and the days the clock of the token claims runs
MaxTokens == 2
MaxDays == 4

Callers == {"c1", "c2"}
Reqs == {"r1", "r2"}
IPs == {"10.0.0.1", "10.0.0.2"}
MovieIDs == 1..MaxMovies
UserIDs == 1..MaxUsers
Titles == {"Alien", "Brazil"}
Names == {"ann", "bob"}
Emails == {"a@x.io", "A@x.io", "b@x.io"}

----------------------------------------------------------------------------
(* Errors of internal/data *)

Nil == "nil"
ErrRecordNotFound == "record not found"
ErrEditConflict == "edit conflict"
ErrDuplicateEmail == "duplicate email"
\* any other error of the driver (syntax error, timeout, connection loss)
ErrDriver == "pq: error"
\* an error of the mailer (template, dial, send)
ErrMail == "mail: error"

----------------------------------------------------------------------------
(* Rows and structs *)

NoMovieRow == [exists |-> FALSE, title |-> "", version |-> 0]
NoUserRow ==
  [exists |-> FALSE, name |-> "", email |-> "", password_hash |-> <<>>,
   activated |-> FALSE, version |-> 0]

\* Movie struct held by a caller
NoMovie == [ID |-> 0, Title |-> "", Version |-> 0]
\* User struct held by a caller
NoUser == [ID |-> 0, Name |-> "", Email |-> "", Password |-> <<>>,
           Activated |-> FALSE, Version |-> 0]

\* column type citext: comparison ignores case
CiText(e) == IF e = "A@x.io" THEN "a@x.io" ELSE e

\* DEFAULT 1 of the version column
InitialVersion == 1

\* bigserial: the next id is one more than the highest id ever used
NextID(tbl) ==
  LET used == {i \in DOMAIN tbl : tbl[i].version > 0}
  IN  IF used = {} THEN 1
      ELSE (CHOOSE i \in used : \A j \in used : j <= i) + 1

----------------------------------------------------------------------------
(* SQL statements.  A SET clause is a list of assignments; the server      *)
(* rejects the statement when an assignment lacks its "=".                 *)

MovieUpdateQuery ==
  << [col |-> "title", eq |-> TRUE], [col |-> "year", eq |-> TRUE],
     [col |-> "runtime", eq |-> TRUE], [col |-> "genres", eq |-> TRUE],
     [col |-> "version", eq |-> TRUE] >>

UserUpdateQuery ==
  << [col |-> "name", eq |-> TRUE], [col |-> "email", eq |-> FALSE],
     [col |-> "password_hash", eq |-> FALSE],
     [col |-> "activated", eq |-> FALSE], [col |-> "version", eq |-> TRUE] >>

Parses(query) == \A i \in DOMAIN query : query[i].eq

----------------------------------------------------------------------------
(* The connection pool *)

\* DB.ExecContext, DB.QueryContext and QueryRowContext(...).Scan return an
\* error of the driver while the database cannot be reached
Unreachable == db = "down"

\* CreateTimeoutContext(QueryTimeout): the call is aborted when the
\* database has not answered within the timeout
DeadlineExceeded == db = "slow"

ErrDeadline == "context deadline exceeded"

\* the error the call returns then
ExecError == IF DeadlineExceeded THEN ErrDeadline ELSE ErrDriver

----------------------------------------------------------------------------
(* MovieModel *)

MovieModelGet(tbl, id) ==
  IF Unreachable \/ DeadlineExceeded
  THEN [err |-> ExecError, movie |-> NoMovie]
  ELSE
  IF id < 1 THEN [err |-> ErrRecordNotFound, movie |-> NoMovie]
  ELSE IF id \in DOMAIN tbl /\ tbl[id].exists
  THEN [err |-> Nil,
        movie |-> [ID |-> id, Title |-> tbl[id].title,
                   Version |-> tbl[id].version]]
  ELSE [err |-> ErrRecordNotFound, movie |-> NoMovie]

MovieModelInsert(tbl, movie) ==
  IF Unreachable \/ DeadlineExceeded
  THEN [err |-> ExecError, movie |-> movie, tbl |-> tbl]
  ELSE
  LET id == NextID(tbl)
  IN  [err |-> Nil,
       movie |-> [movie EXCEPT !.ID = id, !.Version = InitialVersion],
       tbl |-> [tbl EXCEPT ![id] = [exists |-> TRUE, title |-> movie.Title,
                                    version |-> InitialVersion]]]

\* a plausible slip: the WHERE clause without "AND version = $6"
MovieModelUpdate_NoVersionCheck(tbl, movie) ==
  IF movie.ID \in DOMAIN tbl /\ tbl[movie.ID].exists
  THEN [err |-> Nil,
        movie |-> [movie EXCEPT !.Version = tbl[movie.ID].version + 1],
        tbl |-> [tbl EXCEPT ![movie.ID] =
                   [exists |-> TRUE, title |-> movie.Title,
                    version |-> @.version + 1]]]
  ELSE [err |-> ErrEditConflict, movie |-> movie, tbl |-> tbl]

\* a slip: the returned version is not scanned into the struct
MovieModelUpdate_NoWriteBack(tbl, movie) ==
  LET match == {i \in DOMAIN tbl :
                  tbl[i].exists /\ i = movie.ID
                  /\ tbl[i].version = movie.Version}
  IN  IF match = {}
      THEN [err |-> ErrEditConflict, movie |-> movie, tbl |-> tbl]
      ELSE [err |-> Nil, movie |-> movie,
            tbl |-> [tbl EXCEPT ![movie.ID] =
                       [exists |-> TRUE, title |-> movie.Title,
                        version |-> @.version + 1]]]

\* a slip: sql.ErrNoRows taken for a missing record, as Get does
MovieModelUpdate_NotFound(tbl, movie) ==
  LET match == {i \in DOMAIN tbl :
                  tbl[i].exists /\ i = movie.ID
                  /\ tbl[i].version = movie.Version}
  IN  IF match = {}
      THEN [err |-> IF movie.ID \in DOMAIN tbl /\ tbl[movie.ID].exists
                    THEN ErrEditConflict ELSE ErrRecordNotFound,
            movie |-> movie, tbl |-> tbl]
      ELSE [err |-> Nil,
            movie |-> [movie EXCEPT !.Version = tbl[movie.ID].version + 1],
            tbl |-> [tbl EXCEPT ![movie.ID] =
                       [exists |-> TRUE, title |-> movie.Title,
                        version |-> @.version + 1]]]

MovieModelUpdate(tbl, movie) ==
  IF Unreachable \/ DeadlineExceeded
  THEN [err |-> ExecError, movie |-> movie, tbl |-> tbl]
  ELSE
  LET match == {i \in DOMAIN tbl :
                  tbl[i].exists /\ i = movie.ID
                  /\ tbl[i].version = movie.Version}
  IN  IF ~Parses(MovieUpdateQuery)
      THEN [err |-> ErrDriver, movie |-> movie, tbl |-> tbl]
      ELSE IF match = {}
      THEN [err |-> ErrEditConflict, movie |-> movie, tbl |-> tbl]
      ELSE [err |-> Nil,
            movie |-> [movie EXCEPT !.Version = tbl[movie.ID].version + 1],
            tbl |-> [tbl EXCEPT ![movie.ID] =
                       [exists |-> TRUE, title |-> movie.Title,
                        version |-> @.version + 1]]]

MovieModelDelete(tbl, id) ==
  IF Unreachable \/ DeadlineExceeded
  THEN [err |-> ExecError, tbl |-> tbl]
  ELSE
  IF id < 1 THEN [err |-> ErrRecordNotFound, tbl |-> tbl]
  ELSE IF id \in DOMAIN tbl /\ tbl[id].exists
  THEN [err |-> Nil, tbl |-> [tbl EXCEPT ![id].exists = FALSE]]
  ELSE [err |-> ErrRecordNotFound, tbl |-> tbl]

----------------------------------------------------------------------------
(* UserModel *)

UserModelGetByEmail(tbl, email) ==
  IF Unreachable \/ DeadlineExceeded
  THEN [err |-> ExecError, user |-> NoUser]
  ELSE
  LET match == {i \in DOMAIN tbl :
                  tbl[i].exists /\ CiText(tbl[i].email) = CiText(email)}
  IN  IF match = {} THEN [err |-> ErrRecordNotFound, user |-> NoUser]
      ELSE LET id == CHOOSE i \in match : TRUE
           IN  [err |-> Nil,
                user |-> [ID |-> id, Name |-> tbl[id].name,
                          Email |-> tbl[id].email,
                          Password |-> tbl[id].password_hash,
                          Activated |-> tbl[id].activated,
                          Version |-> tbl[id].version]]

UserModelUpdate(tbl, user) ==
  IF Unreachable \/ DeadlineExceeded
  THEN [err |-> ExecError, user |-> user, tbl |-> tbl]
  ELSE
  LET match == {i \in DOMAIN tbl :
                  tbl[i].exists /\ i = user.ID
                  /\ tbl[i].version = user.Version}
      dup == {i \in DOMAIN tbl :
                tbl[i].exists /\ i # user.ID
                /\ CiText(tbl[i].email) = CiText(user.Email)}
  IN  IF ~Parses(UserUpdateQuery)
      THEN [err |-> ErrDriver, user |-> user, tbl |-> tbl]
      ELSE IF match = {}
      THEN [err |-> ErrEditConflict, user |-> user, tbl |-> tbl]
      ELSE IF dup # {}
      THEN [err |-> ErrDuplicateEmail, user |-> user, tbl |-> tbl]
      ELSE [err |-> Nil,
            user |-> [user EXCEPT !.Version = tbl[user.ID].version + 1],
            tbl |-> [tbl EXCEPT ![user.ID] =
                       [exists |-> TRUE, name |-> user.Name,
                        email |-> user.Email,
                        password_hash |-> user.Password,
                        activated |-> user.Activated,
                        version |-> @.version + 1]]]

\* a slip: the table without its UNIQUE constraint on email
UserModelInsert_NoUnique(tbl, user) ==
  LET id == NextID(tbl)
  IN  [err |-> Nil,
       user |-> [user EXCEPT !.ID = id, !.Version = InitialVersion],
       tbl |-> [tbl EXCEPT ![id] =
                  [exists |-> TRUE, name |-> user.Name,
                   email |-> user.Email,
                   password_hash |-> user.Password,
                   activated |-> user.Activated,
                   version |-> InitialVersion]]]

UserModelInsert(tbl, user) ==
  IF Unreachable \/ DeadlineExceeded
  THEN [err |-> ExecError, user |-> user, tbl |-> tbl]
  ELSE
  LET dup == {i \in DOMAIN tbl :
                tbl[i].exists /\ CiText(tbl[i].email) = CiText(user.Email)}
      id == NextID(tbl)
  IN  IF dup # {}
      THEN [err |-> ErrDuplicateEmail, user |-> user, tbl |-> tbl]
      ELSE [err |-> Nil,
            user |-> [user EXCEPT !.ID = id, !.Version = InitialVersion],
            tbl |-> [tbl EXCEPT ![id] =
                       [exists |-> TRUE, name |-> user.Name,
                        email |-> user.Email,
                        password_hash |-> user.Password,
                        activated |-> user.Activated,
                        version |-> InitialVersion]]]

----------------------------------------------------------------------------
(* Clock and configuration *)

Second == 1000
Minute == 60 * Second
\* the deadline of every call of the models, filters.go line 32
QueryTimeout == 3 * Second
\* the step of the clock within a minute
SmallTick == Second \div 4

\* flag defaults of main
DefaultRps == 2
DefaultBurst == 4

SweepInterval == Minute
IdleThreshold == 3 * Minute

\* the value of the request context: a *data.User and what it points to
NoContext == [set |-> FALSE, ptr |-> "", user |-> NoUser]

\* a request: its place in the chain (pc), what it carries (ip, header,
\* route, token), what the stages have attached and answered (ctx, status,
\* msg, user), and what has been done for it: forwarded counts the calls of
\* next by authenticate, handled those of the route's handler, lookups those
\* of UserModel.GetForToken by authenticate, loads those of
\* PermissionModel.GetAllForUser; authAt and lookupAt are the times of the
\* token lookups of authenticate and of activateUser, was is the users table
\* when the request arrived; written are the responses written to the
\* http.ResponseWriter, close is the header "Connection: close", panic the
\* value of a panic, email and password the fields of the request body
\* serve, lines 22-62: the server listens and the goroutine of the signals
\* waits at the channel quit
Listening == [pc |-> "listening", signal |-> "", since |-> 0, err |-> Nil]

NoRequest ==
  [pc |-> "none", ip |-> "", addrOK |-> TRUE, ok |-> FALSE, status |-> 0,
   msg |-> "", header |-> <<>>,
   route |-> [handler |-> "", guard |-> "", code |-> ""],
   stages |-> <<>>, ctx |-> NoContext, forwarded |-> 0, handled |-> 0,
   lookups |-> 0, loads |-> 0, authAt |-> 0, lookupAt |-> 0,
   token |-> <<>>, user |-> NoUser,
   was |-> [i \in UserIDs |-> NoUserRow],
   written |-> <<>>, close |-> FALSE, panic |-> "", email |-> "",
   password |-> "", err |-> Nil, name |-> "", keptOk |-> FALSE]

\* the entry of the clients map for an ip that has none
NoClient ==
  [exists |-> FALSE, limiter |-> [tokens |-> 0], lastSeen |-> 0,
   allowed |-> 0, denied |-> 0]

DefaultConfig ==
  [limiter |-> [rps |-> DefaultRps, burst |-> DefaultBurst, enabled |-> TRUE]]

\* the limiter before any request
InitIdleLimiter ==
  /\ now = 0
  /\ config = DefaultConfig
  /\ mu = ""
  /\ clients = [ip \in IPs |-> NoClient]
  /\ kept = [ip \in IPs |-> NoClient]
  /\ sweep = [pc |-> "sleep", wake |-> SweepInterval]
  /\ admitted = [ip \in IPs |-> 0]
  /\ served = 0

----------------------------------------------------------------------------
(* Callers of the models.  A caller reads a record into its struct (Get),  *)
(* changes fields and calls Update with the struct, as the handlers do.    *)
(* callVersion is the Version the struct carried into the last Update.     *)

IdleCaller ==
  [pc |-> "idle", kind |-> "none", movie |-> NoMovie, user |-> NoUser,
   err |-> Nil, callVersion |-> 0]

\* the tables as the migrations create them
InitDB ==
  /\ movies = [i \in MovieIDs |-> NoMovieRow]
  /\ users = [i \in UserIDs |-> NoUserRow]
  /\ tokens = {}
  /\ permissions = {}
  /\ issued = {}
  /\ db = "up"
  /\ srv = Listening
  /\ mails = {}

InitOCC ==
  /\ InitDB
  /\ caller = [c \in Callers |-> IdleCaller]
  /\ InitIdleLimiter
  /\ req = [r \in Reqs |-> NoRequest]

CallMovieGet(c, id) ==
  /\ caller[c].pc = "idle"
  /\ LET r == MovieModelGet(movies, id)
     IN  caller' = [caller EXCEPT ![c] =
                      IF r.err = Nil
                      THEN [IdleCaller EXCEPT !.pc = "read", !.kind = "movie",
                                              !.movie = r.movie]
                      ELSE [IdleCaller EXCEPT !.err = r.err]]
  /\ UNCHANGED <<movies, users, offOCC>>

CallMovieInsert(c, title) ==
  /\ caller[c].pc = "idle"
  /\ NextID(movies) <= MaxMovies
  /\ LET r == MovieModelInsert(movies, [NoMovie EXCEPT !.Title = title])
     IN  /\ movies' = r.tbl
         /\ caller' = [caller EXCEPT ![c] =
                         [IdleCaller EXCEPT !.pc = "read", !.kind = "movie",
                                            !.movie = r.movie]]
  /\ UNCHANGED <<users, offOCC>>

CallMovieUpdate(c, title) ==
  /\ caller[c].pc \in {"read", "updated"}
  /\ caller[c].kind = "movie"
  /\ \A i \in MovieIDs : movies[i].version < MaxVersion
  /\ LET r == MovieModelUpdate(movies, [caller[c].movie EXCEPT !.Title = title])
     IN  /\ movies' = r.tbl
         /\ caller' = [caller EXCEPT ![c] =
                         [@ EXCEPT !.pc = "updated", !.movie = r.movie,
                                   !.err = r.err,
                                   !.callVersion = caller[c].movie.Version]]
  /\ UNCHANGED <<users, offOCC>>

CallMovieDelete(c, id) ==
  /\ caller[c].pc = "idle"
  /\ LET r == MovieModelDelete(movies, id)
     IN  /\ movies' = r.tbl
         /\ caller' = [caller EXCEPT ![c] = [IdleCaller EXCEPT !.err = r.err]]
  /\ UNCHANGED <<users, offOCC>>

CallUserGetByEmail(c, email) ==
  /\ caller[c].pc = "idle"
  /\ LET r == UserModelGetByEmail(users, email)
     IN  caller' = [caller EXCEPT ![c] =
                      IF r.err = Nil
                      THEN [IdleCaller EXCEPT !.pc = "read", !.kind = "user",
                                              !.user = r.user]
                      ELSE [IdleCaller EXCEPT !.err = r.err]]
  /\ UNCHANGED <<movies, users, offOCC>>

CallUserInsert(c, name, email) ==
  /\ caller[c].pc = "idle"
  /\ NextID(users) <= MaxUsers
  /\ LET r == UserModelInsert(users, [NoUser EXCEPT !.Name = name,
                                                    !.Email = email])
     IN  /\ users' = r.tbl
         /\ caller' = [caller EXCEPT ![c] =
                         IF r.err = Nil
                         THEN [IdleCaller EXCEPT !.pc = "read",
                                                 !.kind = "user",
                                                 !.user = r.user]
                         ELSE [IdleCaller EXCEPT !.err = r.err]]
  /\ UNCHANGED <<movies, offOCC>>

CallUserUpdate(c, name, activated) ==
  /\ caller[c].pc \in {"read", "updated"}
  /\ caller[c].kind = "user"
  /\ \A i \in UserIDs : users[i].version < MaxVersion
  /\ LET r == UserModelUpdate(users, [caller[c].user EXCEPT
                                        !.Name = name,
                                        !.Activated = activated])
     IN  /\ users' = r.tbl
         /\ caller' = [caller EXCEPT ![c] =
                         [@ EXCEPT !.pc = "updated", !.user = r.user,
                                   !.err = r.err,
                                   !.callVersion = caller[c].user.Version]]
  /\ UNCHANGED <<movies, offOCC>>

\* the caller's request ends; its struct is dropped
CallReturn(c) ==
  /\ caller[c].pc \in {"read", "updated"}
  /\ caller' = [caller EXCEPT ![c] = IdleCaller]
  /\ UNCHANGED <<movies, users, offOCC>>

NextOCC ==
  \/ \E c \in Callers, id \in 0..MaxMovies : CallMovieGet(c, id)
  \/ \E c \in Callers, t \in Titles : CallMovieInsert(c, t)
  \/ \E c \in Callers, t \in Titles : CallMovieUpdate(c, t)
  \/ \E c \in Callers, id \in 0..MaxMovies : CallMovieDelete(c, id)
  \/ \E c \in Callers : CallReturn(c)

\* callers of MovieModel
SpecOCC == InitOCC /\ [][NextOCC]_vars

NextUserOCC ==
  \/ \E c \in Callers, e \in Emails : CallUserGetByEmail(c, e)
  \/ \E c \in Callers, n \in Names, e \in Emails : CallUserInsert(c, n, e)
  \/ \E c \in Callers, n \in Names, a \in BOOLEAN : CallUserUpdate(c, n, a)
  \/ \E c \in Callers : CallReturn(c)

\* callers of UserModel
SpecUserOCC == InitOCC /\ [][NextUserOCC]_vars

\* one title, one name and two addresses: what is written into the other
\* columns makes no difference to the version column
OneTitle == {"Alien"}
OneName == {"ann"}
TwoEmails == {"a@x.io", "b@x.io"}

NextRecords ==
  \/ \E c \in Callers, id \in MovieIDs : CallMovieGet(c, id)
  \/ \E c \in Callers, t \in OneTitle : CallMovieInsert(c, t)
  \/ \E c \in Callers, t \in OneTitle : CallMovieUpdate(c, t)
  \/ \E c \in Callers, id \in MovieIDs : CallMovieDelete(c, id)
  \/ \E c \in Callers, e \in TwoEmails : CallUserGetByEmail(c, e)
  \/ \E c \in Callers, n \in OneName, e \in TwoEmails :
       CallUserInsert(c, n, e)
  \/ \E c \in Callers, n \in OneName, a \in BOOLEAN :
       CallUserUpdate(c, n, a)
  \/ \E c \in Callers : CallReturn(c)

\* callers of both models
SpecRecords == InitOCC /\ [][NextRecords]_vars

----------------------------------------------------------------------------
(* golang.org/x/time/rate: a bucket of at most burst tokens that gains rps  *)
(* tokens per second.  Tokens are counted in thousandths: in d milliseconds *)
(* a bucket gains d * rps thousandths.  The bucket of a client is kept up   *)
(* to date with the clock, so Allow only has to look at it.                 *)

Token == Second

Min(a, b) == IF a <= b THEN a ELSE b

\* rate.NewLimiter: the bucket starts full
NewLimiter(rps, burst) == [tokens |-> burst * Token]

\* the bucket d milliseconds later
Refilled(lim, d) ==
  [tokens |-> Min(config.limiter.burst * Token,
                  lim.tokens + d * config.limiter.rps)]

\* a slip: the token is handed out but stays in the bucket
Allow_KeepsToken(lim) ==
  IF lim.tokens >= Token
  THEN [ok |-> TRUE, lim |-> lim]
  ELSE [ok |-> FALSE, lim |-> lim]

\* Limiter.Allow: take one token if there is one
Allow(lim) ==
  IF lim.tokens >= Token
  THEN [ok |-> TRUE, lim |-> [tokens |-> lim.tokens - Token]]
  ELSE [ok |-> FALSE, lim |-> lim]

\* d milliseconds pass
Pass(d) ==
  /\ now' = now + d
  /\ clients' = [ip \in IPs |->
                   IF clients[ip].exists
                   THEN [clients[ip] EXCEPT !.limiter = Refilled(@, d)]
                   ELSE clients[ip]]
  /\ kept' = [ip \in IPs |->
                IF kept[ip].exists
                THEN [kept[ip] EXCEPT !.limiter = Refilled(@, d)]
                ELSE kept[ip]]
  /\ UNCHANGED <<movies, users, caller, tokens, permissions, issued, db,
                 mails, srv, config, mu, sweep, req, admitted, served>>

\* the clock advances at any moment, whatever the goroutines are doing:
\* by a quarter second shortly after the start, or to the next full minute
TickSmall ==
  /\ now + SmallTick <= MaxSubTicks * SmallTick
  /\ Pass(SmallTick)

TickMinute ==
  /\ now < MaxMinutes * Minute
  /\ Pass(Minute - (now % Minute))

----------------------------------------------------------------------------
(* cmd/api: the responses of errors.go *)

Response(status, msg) == [status |-> status, msg |-> msg]

\* what a stage returns when it calls next instead of answering
CallNext == Response(0, "")

serverErrorResponse ==
  Response(500,
    "the server encountered a problem and couldn't process your request")
notFoundResponse == Response(404, "the requested resource cannot be found")
editConflictResponse ==
  Response(409,
    "unable to update the record due to an edit conflict, please try again")
invalidCredentialsResponse ==
  Response(401, "invalid authentication credentials")
invalidAuthenticationTokenResponse ==
  Response(401, "invalid authentication token")
authenticationRequiredResponse ==
  Response(401, "you must be authenticated to access this resource")
activationRequiredResponse ==
  Response(403,
    "your user account must be activated to access this resource")
permissionRequiredResponse ==
  Response(403,
    "your user account doesn't have the necessary permissions to access this resource")
rateLimitExceededReponse == Response(429, "rate limit exceeded")
\* failedValidationResponse with the error of one key
failedValidationResponse(msg) == Response(422, msg)

\* the request with the response written
\* writeJSON: the first WriteHeader sets the status of the response, every
\* Write adds to its body
Responded(q, resp) ==
  [q EXCEPT !.pc = "done",
            !.status = IF q.written = <<>> THEN resp.status ELSE @,
            !.msg = IF q.written = <<>> THEN resp.msg ELSE @,
            !.written = Append(@, resp)]

\* a slip: the response without the Connection header
recoverPanic_KeepAlive(q, value) ==
  Responded([q EXCEPT !.panic = value], serverErrorResponse)

\* recoverPanic: the deferred function recovers the panic of a stage behind
\* it, sets "Connection: close" and answers with serverErrorResponse, which
\* logs the value
recoverPanic(q, value) ==
  Responded([q EXCEPT !.panic = value, !.close = TRUE], serverErrorResponse)

----------------------------------------------------------------------------
(* Requests.  pc is the place of the request's goroutine in the chain       *)
(* recoverPanic(rateLimit(authenticate(router))).                           *)

\* a request arrives, one of at most max; addrOK tells whether r.RemoteAddr
\* is "host:port"
ArriveWithin(r, ip, addrOK, max) ==
  /\ req[r].pc = "none"
  /\ served < max
  /\ served' = served + 1
  /\ req' = [req EXCEPT ![r] = [NoRequest EXCEPT !.pc = "rateLimit",
                                                 !.ip = ip,
                                                 !.addrOK = addrOK]]
  /\ UNCHANGED <<dbVars, now, config, mu, clients, sweep,
                 admitted>>

Arrive(r, ip, addrOK) == ArriveWithin(r, ip, addrOK, MaxRequests)

\* a slip: the enabled flag not looked at
RateLimitEnter_AlwaysOn(r) ==
  /\ req[r].pc = "rateLimit"
  /\ req' = [req EXCEPT ![r] =
               IF ~req[r].addrOK
               THEN Responded(@, serverErrorResponse)
               ELSE [@ EXCEPT !.pc = "lock"]]
  /\ UNCHANGED <<dbVars, now, config, mu, clients, sweep, admitted,
                 served>>

\* rateLimit, lines 74-80: the enabled flag and net.SplitHostPort
RateLimitEnter(r) ==
  /\ req[r].pc = "rateLimit"
  /\ req' = [req EXCEPT ![r] =
               IF ~config.limiter.enabled
               THEN [@ EXCEPT !.pc = "authenticate"]
               ELSE IF ~req[r].addrOK
               THEN Responded(@, serverErrorResponse)
               ELSE [@ EXCEPT !.pc = "lock"]]
  /\ UNCHANGED <<dbVars, now, config, mu, clients, sweep, admitted,
                 served>>

\* a slip: the critical section entered without waiting for the mutex
MuLock_NoExclusion(holder, who) == TRUE

\* sync.Mutex.Lock returns only when the mutex is free
MuLock(holder, who) == holder = ""

\* line 82
RateLimitLock(r) ==
  /\ req[r].pc = "lock"
  /\ MuLock(mu, r)
  /\ mu' = r
  /\ req' = [req EXCEPT ![r].pc = "lookup"]
  /\ UNCHANGED <<dbVars, now, config, clients, sweep,
                 admitted, served>>

\* line 85
RateLimitLookup(r) ==
  /\ req[r].pc = "lookup"
  /\ req' = [req EXCEPT ![r].pc =
               IF clients[req[r].ip].exists THEN "seen" ELSE "create"]
  /\ UNCHANGED <<dbVars, now, config, mu, clients, sweep,
                 admitted, served>>

\* lines 86-90
RateLimitCreate(r) ==
  /\ req[r].pc = "create"
  /\ clients' = [clients EXCEPT ![req[r].ip] =
                   [NoClient EXCEPT
                      !.exists = TRUE,
                      !.limiter = NewLimiter(config.limiter.rps,
                                             config.limiter.burst)]]
  /\ req' = [req EXCEPT ![r].pc = "seen"]
  /\ UNCHANGED <<dbVars, now, config, mu, sweep, admitted,
                 served>>

\* a slip: line 93 missing, the last-seen time stays as it was
RateLimitSeen_NoRefresh(r) ==
  /\ req[r].pc = "seen"
  /\ clients' = clients
  /\ req' = [req EXCEPT ![r].pc = "allow"]
  /\ UNCHANGED <<dbVars, now, config, mu, sweep, admitted,
                 served>>

\* line 93
RateLimitSeen(r) ==
  /\ req[r].pc = "seen"
  /\ clients' = [clients EXCEPT ![req[r].ip].lastSeen = now]
  /\ req' = [req EXCEPT ![r].pc = "allow"]
  /\ UNCHANGED <<dbVars, now, config, mu, sweep, admitted,
                 served>>

\* the limiter that never sweeps is asked as well: the bucket it has kept
\* for the client, or a new one for a client it has not seen
KeptAllow(ip) ==
  Allow(IF kept[ip].exists THEN kept[ip].limiter
        ELSE NewLimiter(config.limiter.rps, config.limiter.burst))

\* a slip: the entries of the map share one bucket, so that the token a
\* request takes is gone from the bucket of every client
RateLimitAllow_SharedBucket(r) ==
  /\ req[r].pc = "allow"
  /\ LET ip == req[r].ip
         a == Allow(clients[ip].limiter)
     IN  /\ clients' = [i \in IPs |->
                          IF i = ip
                          THEN [clients[i] EXCEPT
                                  !.limiter = a.lim,
                                  !.allowed = IF a.ok THEN @ + 1 ELSE @,
                                  !.denied = IF a.ok THEN @ ELSE @ + 1]
                          ELSE IF clients[i].exists /\ a.ok
                          THEN [clients[i] EXCEPT
                                  !.limiter = Allow(@).lim]
                          ELSE clients[i]]
         /\ admitted' = [admitted EXCEPT ![ip] = IF a.ok THEN @ + 1 ELSE @]
         /\ kept' = [kept EXCEPT ![ip].exists = TRUE,
                                 ![ip].limiter = KeptAllow(ip).lim]
         /\ req' = [req EXCEPT ![r].ok = a.ok, ![r].pc = "unlock",
                               ![r].keptOk = KeptAllow(ip).ok]
  /\ UNCHANGED <<movies, users, caller, tokens, permissions, issued, db,
                 mails, srv, now, config, mu, sweep, served>>

\* line 95
RateLimitAllow(r) ==
  /\ req[r].pc = "allow"
  /\ LET ip == req[r].ip
         a == Allow(clients[ip].limiter)
     IN  /\ clients' = [clients EXCEPT
                          ![ip].limiter = a.lim,
                          ![ip].allowed = IF a.ok THEN @ + 1 ELSE @,
                          ![ip].denied = IF a.ok THEN @ ELSE @ + 1]
         /\ admitted' = [admitted EXCEPT ![ip] = IF a.ok THEN @ + 1 ELSE @]
         /\ kept' = [kept EXCEPT ![ip].exists = TRUE,
                                 ![ip].limiter = KeptAllow(ip).lim]
         /\ req' = [req EXCEPT ![r].ok = a.ok, ![r].pc = "unlock",
                               ![r].keptOk = KeptAllow(ip).ok]
  /\ UNCHANGED <<movies, users, caller, tokens, permissions, issued, db,
                 mails, srv, now, config, mu, sweep, served>>

\* a slip: line 106 reached whatever Allow said
AfterAllow_AlwaysNext(ok) == "authenticate"

\* lines 95-106: where the request goes when Allow has answered
AfterAllow(ok) == IF ok THEN "authenticate" ELSE "exceeded"

\* a slip: mu.Unlock on the path of an admitted request only
RateLimitUnlock_AdmittedOnly(r) ==
  /\ req[r].pc = "unlock"
  /\ mu' = IF mu = r /\ req[r].ok THEN "" ELSE mu
  /\ req' = [req EXCEPT ![r].pc = AfterAllow(req[r].ok)]
  /\ UNCHANGED <<dbVars, now, config, clients, sweep,
                 admitted, served>>

\* lines 96 and 103
RateLimitUnlock(r) ==
  /\ req[r].pc = "unlock"
  /\ mu' = IF mu = r THEN "" ELSE mu
  /\ req' = [req EXCEPT ![r].pc = AfterAllow(req[r].ok)]
  /\ UNCHANGED <<dbVars, now, config, clients, sweep,
                 admitted, served>>

\* lines 97-98: rateLimitExceededReponse
RateLimitExceeded(r) ==
  /\ req[r].pc = "exceeded"
  /\ req' = [req EXCEPT ![r] = Responded(@, rateLimitExceededReponse)]
  /\ UNCHANGED <<dbVars, now, config, mu, clients, sweep,
                 admitted, served>>

\* line 106, for the limiter alone: the stages behind rateLimit answer
Downstream(r) ==
  /\ req[r].pc = "authenticate"
  /\ req' = [req EXCEPT ![r] = Responded(@, Response(200, ""))]
  /\ UNCHANGED <<dbVars, now, config, mu, clients, sweep,
                 admitted, served>>

\* the response is sent and the goroutine ends
Finish(r) ==
  /\ req[r].pc = "done"
  /\ req' = [req EXCEPT ![r] = NoRequest]
  /\ UNCHANGED <<dbVars, now, config, mu, clients, sweep,
                 admitted, served>>

----------------------------------------------------------------------------
(* The background goroutine of rateLimit, lines 58-71 *)

\* lines 60-62: time.Sleep returns after at least a minute, then mu.Lock
SweepLock ==
  /\ sweep.pc = "sleep"
  /\ now >= sweep.wake
  /\ MuLock(mu, "sweep")
  /\ mu' = "sweep"
  /\ sweep' = [sweep EXCEPT !.pc = "scan"]
  /\ UNCHANGED <<dbVars, now, config, clients, req, admitted,
                 served>>

\* a slip: the scan deletes nothing
SweepScan_NoDelete ==
  /\ sweep.pc = "scan"
  /\ sweep' = [sweep EXCEPT !.pc = "unlock"]
  /\ UNCHANGED <<dbVars, now, config, mu, clients, req, admitted,
                 served>>

\* a slip: the scan deletes every entry, idle or not
SweepScan_DeleteAll ==
  /\ sweep.pc = "scan"
  /\ clients' = [ip \in IPs |-> NoClient]
  /\ sweep' = [sweep EXCEPT !.pc = "unlock"]
  /\ UNCHANGED <<dbVars, now, config, mu, req, admitted,
                 served>>

\* lines 63-67
SweepScan ==
  /\ sweep.pc = "scan"
  /\ clients' = [ip \in IPs |->
                   IF clients[ip].exists
                      /\ now - clients[ip].lastSeen > IdleThreshold
                   THEN NoClient ELSE clients[ip]]
  /\ sweep' = [sweep EXCEPT !.pc = "unlock"]
  /\ UNCHANGED <<dbVars, now, config, mu, req, admitted,
                 served>>

\* line 69, and the next time.Sleep
SweepUnlock ==
  /\ sweep.pc = "unlock"
  /\ mu' = IF mu = "sweep" THEN "" ELSE mu
  /\ sweep' = [pc |-> "sleep", wake |-> now + SweepInterval]
  /\ UNCHANGED <<dbVars, now, config, clients, req, admitted,
                 served>>

InitLimiter ==
  /\ InitDB
  /\ caller = [c \in Callers |-> IdleCaller]
  /\ now = 0
  /\ config \in [limiter : [rps : {DefaultRps}, burst : 1..MaxBurst,
                            enabled : BOOLEAN]]
  /\ mu = ""
  /\ clients = [ip \in IPs |-> NoClient]
  /\ kept = [ip \in IPs |-> NoClient]
  /\ sweep = [pc |-> "sleep", wake |-> SweepInterval]
  /\ req = [r \in Reqs |-> NoRequest]
  /\ admitted = [ip \in IPs |-> 0]
  /\ served = 0

\* the client whose requests race with each other and with the sweep
OneIP == {"10.0.0.1"}

NextLimiter ==
  \/ TickSmall
  \/ TickMinute
  \/ \E r \in Reqs, ip \in OneIP, a \in BOOLEAN : Arrive(r, ip, a)
  \/ \E r \in Reqs : RateLimitEnter(r)
  \/ \E r \in Reqs : RateLimitLock(r)
  \/ \E r \in Reqs : RateLimitLookup(r)
  \/ \E r \in Reqs : RateLimitCreate(r)
  \/ \E r \in Reqs : RateLimitSeen(r)
  \/ \E r \in Reqs : RateLimitAllow(r)
  \/ \E r \in Reqs : RateLimitUnlock(r)
  \/ \E r \in Reqs : RateLimitExceeded(r)
  \/ \E r \in Reqs : Downstream(r)
  \/ \E r \in Reqs : Finish(r)
  \/ SweepLock
  \/ SweepScan
  \/ SweepUnlock

\* concurrent requests of one client, the sweep and the clock
SpecLimiter == InitLimiter /\ [][NextLimiter]_vars

InitBurst ==
  /\ InitDB
  /\ caller = [c \in Callers |-> IdleCaller]
  /\ now = 0
  /\ config \in [limiter : [rps : {DefaultRps},
                            burst : (1..MaxBurst) \cup {DefaultBurst},
                            enabled : {TRUE}]]
  /\ mu = ""
  /\ clients = [ip \in IPs |-> NoClient]
  /\ kept = [ip \in IPs |-> NoClient]
  /\ sweep = [pc |-> "sleep", wake |-> SweepInterval]
  /\ req = [r \in Reqs |-> NoRequest]
  /\ admitted = [ip \in IPs |-> 0]
  /\ served = 0

NextBurst ==
  \/ TickSmall
  \/ \E r \in Reqs, ip \in IPs :
       ArriveWithin(r, ip, TRUE, config.limiter.burst + 1)
  \/ \E r \in Reqs : RateLimitEnter(r)
  \/ \E r \in Reqs : RateLimitLock(r)
  \/ \E r \in Reqs : RateLimitLookup(r)
  \/ \E r \in Reqs : RateLimitCreate(r)
  \/ \E r \in Reqs : RateLimitSeen(r)
  \/ \E r \in Reqs : RateLimitAllow(r)
  \/ \E r \in Reqs : RateLimitUnlock(r)
  \/ \E r \in Reqs : RateLimitExceeded(r)
  \/ \E r \in Reqs : Downstream(r)
  \/ \E r \in Reqs : Finish(r)

\* bursts of requests in the first second after the start, while the
\* sweep goroutine is in its first time.Sleep
SpecBurst == InitBurst /\ [][NextBurst]_vars

----------------------------------------------------------------------------
(* Strings.  A string is a sequence of pieces: a piece is one space or a    *)
(* run of bytes other than spaces, of known length.  Pieces with the same   *)
(* text and id are the same bytes.                                          *)

Piece(text, id, len) == [text |-> text, id |-> id, len |-> len]
Space == Piece(" ", 0, 1)
Str(text, len) == <<Piece(text, 0, len)>>

\* len(s)
RECURSIVE ByteLen(_)
ByteLen(s) == IF s = <<>> THEN 0 ELSE Head(s).len + ByteLen(Tail(s))

RECURSIVE SplitFrom(_, _)
SplitFrom(s, cur) ==
  IF s = <<>> THEN <<cur>>
  ELSE IF Head(s) = Space THEN <<cur>> \o SplitFrom(Tail(s), <<>>)
  ELSE SplitFrom(Tail(s), Append(cur, Head(s)))

\* strings.Split(s, " ")
StringsSplit(s) == SplitFrom(s, <<>>)

----------------------------------------------------------------------------
(* internal/data/tokens.go *)

Activation == "activation"
Authentication == "authentication"

Hour == 60 * Minute

\* the random bytes of a token and the length ValidateTokenPlaintext asks for
RandomBytes == 16
TokenLength == 26

\* base32.StdEncoding without padding: one character for every 5 bits
Base32Len(n) == (n * 8 + 4) \div 5

\* the encoding of the random bytes rnd
Plaintext(rnd) == <<Piece("base32", rnd, Base32Len(RandomBytes))>>

\* sha256.Sum256, taken to be free of collisions
Sha256(s) == <<"sha256", s>>

\* a slip: the expiry without the time to live
generateToken_NoTTL(userID, ttl, scope, t, rnd) ==
  [Plaintext |-> Plaintext(rnd), Hash |-> Sha256(Plaintext(rnd)),
   UserID |-> userID, Expiry |-> t, Scope |-> scope]

\* a slip: the hash taken of the random bytes, not of their encoding
generateToken_HashOfBytes(userID, ttl, scope, t, rnd) ==
  [Plaintext |-> Plaintext(rnd),
   Hash |-> Sha256(<<Piece("random", rnd, RandomBytes)>>),
   UserID |-> userID, Expiry |-> t + ttl, Scope |-> scope]

\* generateToken at time t when crypto/rand yields rnd
generateToken(userID, ttl, scope, t, rnd) ==
  [Plaintext |-> Plaintext(rnd), Hash |-> Sha256(Plaintext(rnd)),
   UserID |-> userID, Expiry |-> t + ttl, Scope |-> scope]

\* a slip: only the first of the two checks
ValidateTokenPlaintext_NonEmptyOnly(plaintext) == plaintext # <<>>

\* v.Valid() after ValidateTokenPlaintext
ValidateTokenPlaintext(plaintext) ==
  /\ plaintext # <<>>
  /\ ByteLen(plaintext) = TokenLength

\* the error message of ValidateTokenPlaintext for key "token": the first
\* failed check wins
TokenValidationError(plaintext) ==
  IF plaintext = <<>> THEN "must be provided" ELSE "must be 26 bytes long"

\* column type timestamp(0): the value is rounded to the whole second
Timestamp0(t) == ((t + Second \div 2) \div Second) * Second

\* INSERT INTO tokens: hash is the primary key, expiry a timestamp(0)
TokenModelInsert(tbl, token) ==
  IF Unreachable \/ DeadlineExceeded
  THEN [err |-> ExecError, tbl |-> tbl]
  ELSE
  IF \E row \in tbl : row.hash = token.Hash
  THEN [err |-> ErrDriver, tbl |-> tbl]
  ELSE [err |-> Nil,
        tbl |-> tbl \cup {[hash |-> token.Hash, user_id |-> token.UserID,
                           expiry |-> Timestamp0(token.Expiry),
                           scope |-> token.Scope]}]

\* TokenModel.New: the error of Insert is dropped
TokenModelNew(tbl, userID, ttl, scope, t, rnd) ==
  LET token == generateToken(userID, ttl, scope, t, rnd)
  IN  [err |-> Nil, token |-> token, tbl |-> TokenModelInsert(tbl, token).tbl]

TokenModelDeleteAllForUser(tbl, scope, userID) ==
  IF Unreachable \/ DeadlineExceeded
  THEN [err |-> ExecError, tbl |-> tbl]
  ELSE
  [err |-> Nil,
   tbl |-> {row \in tbl : ~(row.scope = scope /\ row.user_id = userID)}]

\* UserModel.GetForToken at time t: the user that owns the unexpired token of
\* the scope whose hash is the hash of the plaintext
UserModelGetForToken(utbl, ttbl, scope, plaintext, t) ==
  IF Unreachable \/ DeadlineExceeded
  THEN [err |-> ExecError, user |-> NoUser]
  ELSE
  LET match == {row \in ttbl :
                  /\ row.hash = Sha256(plaintext)
                  /\ row.scope = scope
                  /\ row.expiry > t
                  /\ row.user_id \in DOMAIN utbl
                  /\ utbl[row.user_id].exists}
  IN  IF match = {} THEN [err |-> ErrRecordNotFound, user |-> NoUser]
      ELSE LET id == (CHOOSE row \in match : TRUE).user_id
           IN  [err |-> Nil,
                user |-> [ID |-> id, Name |-> utbl[id].name,
                          Email |-> utbl[id].email,
                          Password |-> utbl[id].password_hash,
                          Activated |-> utbl[id].activated,
                          Version |-> utbl[id].version]]

----------------------------------------------------------------------------
(* Passwords and permissions, internal/data/users.go *)

\* bcrypt.GenerateFromPassword
Bcrypt(plaintext) == <<"bcrypt", plaintext>>

\* password.Matches: bcrypt.CompareHashAndPassword
PasswordMatches(hash, plaintext) == hash = Bcrypt(plaintext)

\* ValidateEmail: the addresses of the model that match EmailRX
ValidEmail(email) == email # "" /\ email \in Emails \cup {"c@x.io"}

\* the first message ValidateEmail adds for key "email"
EmailError(email) ==
  IF email = "" THEN "must be provided" ELSE "must be a valid email adress"

\* len(password), for the passwords of the model
PasswordLen(password) ==
  CASE password = "pa55word" -> 8
    [] password = "0therpa55word" -> 13
    [] password = "pa55" -> 4
    [] OTHER -> 0

\* ValidatePasswordPlaintext
ValidPasswordPlaintext(password) ==
  /\ password # ""
  /\ PasswordLen(password) >= 8
  /\ PasswordLen(password) <= 72

\* the first message ValidatePasswordPlaintext adds for key "password"
PasswordError(password) ==
  IF password = "" THEN "must be provided"
  ELSE IF PasswordLen(password) < 8 THEN "must be at least 8 bytes long"
  ELSE "must be no more than 72 bytes long"

MoviesRead == "movies:read"
MoviesWrite == "movies:write"
PermissionCodes == {MoviesRead, MoviesWrite}

\* PermissionModel.GetAllForUser: the codes joined to the user's row
PermissionModelGetAllForUser(ptbl, utbl, userID) ==
  IF Unreachable \/ DeadlineExceeded
  THEN [err |-> ExecError, permissions |-> {}]
  ELSE
  [err |-> Nil,
   permissions |-> {code \in PermissionCodes :
                      /\ <<userID, code>> \in ptbl
                      /\ userID \in DOMAIN utbl
                      /\ utbl[userID].exists}]

\* a slip: any permission will do
PermissionsIncludes_AnyCode(p, code) == p # {}

\* Permissions.Includes
PermissionsIncludes(p, code) == code \in p

----------------------------------------------------------------------------
(* cmd/api: context and responses *)

\* data.AnonymousUser, a pointer to an empty User that no query returns
AnonymousUser == [set |-> TRUE, ptr |-> "AnonymousUser", user |-> NoUser]

\* User.IsAnonymous: the pointer is AnonymousUser
IsAnonymous(u) == u.ptr = "AnonymousUser"

\* contextSetUser with a user a query returned
contextSetUser(user) == [set |-> TRUE, ptr |-> "row", user |-> user]


----------------------------------------------------------------------------
(* cmd/api/middleware.go: the guards.  A wrapped handler is the sequence of *)
(* the functions a request passes, the route's handler last.                *)

requireAuthenticatedUser(next) == <<"requireAuthenticatedUser">> \o next

\* a slip: fn returned as it is, line 214 without requireAuthenticatedUser
requireActivatedUser_Unwrapped(next) == <<"requireActivatedUser">> \o next

requireActivatedUser(next) ==
  requireAuthenticatedUser(<<"requireActivatedUser">> \o next)

requirePermission(next) ==
  requireActivatedUser(<<"requirePermission">> \o next)

\* routes(): the handler of a route with the guards around it
Wrapped(route) ==
  CASE route.guard = "requireAuthenticatedUser" ->
         requireAuthenticatedUser(<<"handler">>)
    [] route.guard = "requireActivatedUser" ->
         requireActivatedUser(<<"handler">>)
    [] route.guard = "requirePermission" ->
         requirePermission(<<"handler">>)
    [] OTHER -> <<"handler">>

\* a slip: the request is handed on as it came, without the copy that
\* contextSetUser returns
Forwarded_SameRequest(q, ctx) ==
  [q EXCEPT !.pc = "chain", !.forwarded = @ + 1, !.stages = Wrapped(q.route)]

\* next.ServeHTTP of authenticate: the router hands the request, with the
\* user in its context, to the wrapped handler of its route
Forwarded(q, ctx) ==
  [q EXCEPT !.pc = "chain", !.ctx = ctx, !.forwarded = @ + 1,
            !.stages = Wrapped(q.route)]

\* a slip: the header is split without the test for the empty header
ParseAuthorization_NoAnonymous(header) ==
  LET parts == StringsSplit(header)
  IN  IF Len(parts) # 2 \/ parts[1] # Str("Bearer", 6)
      THEN [kind |-> "invalid", token |-> <<>>]
      ELSE IF ~ValidateTokenPlaintext(parts[2])
      THEN [kind |-> "invalid", token |-> <<>>]
      ELSE [kind |-> "token", token |-> parts[2]]

\* authenticate, lines 126-149: no header, a header that is not
\* "Bearer <token>" with a token of 26 bytes, or the token
ParseAuthorization(header) ==
  LET parts == StringsSplit(header)
  IN  IF header = <<>> THEN [kind |-> "none", token |-> <<>>]
      ELSE IF Len(parts) # 2 \/ parts[1] # Str("Bearer", 6)
      THEN [kind |-> "invalid", token |-> <<>>]
      ELSE IF ~ValidateTokenPlaintext(parts[2])
      THEN [kind |-> "invalid", token |-> <<>>]
      ELSE [kind |-> "token", token |-> parts[2]]

\* a slip: the scope is not asked for
authenticateLookup_AnyScope(utbl, ttbl, plaintext, t) ==
  LET a == UserModelGetForToken(utbl, ttbl, Authentication, plaintext, t)
  IN  IF a.err = Nil THEN a
      ELSE UserModelGetForToken(utbl, ttbl, Activation, plaintext, t)

\* authenticate, line 152
authenticateLookup(utbl, ttbl, plaintext, t) ==
  UserModelGetForToken(utbl, ttbl, Authentication, plaintext, t)

\* activateUser, lines 133-136
activateUserLookup(utbl, ttbl, plaintext, t) ==
  UserModelGetForToken(utbl, ttbl, Activation, plaintext, t)

\* a slip: the test of user.Activated left out
authenticatedCheck_NoActivation(u) ==
  IF IsAnonymous(u) THEN authenticationRequiredResponse ELSE CallNext

\* requireAuthenticatedUser, lines 180-189
authenticatedCheck(u) ==
  IF IsAnonymous(u) THEN authenticationRequiredResponse
  ELSE IF ~u.user.Activated THEN activationRequiredResponse
  ELSE CallNext

\* requireActivatedUser, lines 207-211
activatedCheck(u) ==
  IF ~u.user.Activated THEN activationRequiredResponse ELSE CallNext

\* requirePermission, lines 241-246
permissionCheck(p, code) ==
  IF ~PermissionsIncludes(p, code) THEN permissionRequiredResponse
  ELSE CallNext

\* what a stage of the wrapped handler does with the request: answer, or
\* call next; contextGetUser panics without a user in the context and
\* recoverPanic answers for it
\* a slip: a guard without the return after its response, so that next is
\* called all the same
Staged_NoReturn(q, resp) ==
  IF ~q.ctx.set
  THEN recoverPanic(q, "missing user value in request context")
  ELSE IF resp = CallNext THEN [q EXCEPT !.stages = Tail(@)]
  ELSE [Responded(q, resp) EXCEPT !.pc = "chain", !.stages = Tail(q.stages)]

Staged(q, resp) ==
  IF ~q.ctx.set
  THEN recoverPanic(q, "missing user value in request context")
  ELSE IF resp = CallNext THEN [q EXCEPT !.stages = Tail(@)]
  ELSE Responded(q, resp)

AtStage(r, stage) ==
  /\ req[r].pc = "chain"
  /\ req[r].stages # <<>>
  /\ Head(req[r].stages) = stage

\* what the stages behind rateLimit leave alone unless they say otherwise
offReq == <<movies, caller, limVars, permissions, db, srv, kept>>

\* a request arrives with its Authorization header for a route
Receive(r, ip, header, route) ==
  /\ req[r].pc = "none"
  /\ req' = [req EXCEPT ![r] = [NoRequest EXCEPT !.pc = "rateLimit",
                                                 !.ip = ip,
                                                 !.header = header,
                                                 !.route = route,
                                                 !.was = users]]
  /\ UNCHANGED <<offReq, users, tokens, issued, mails>>

\* authenticate, lines 120-167
Authenticate(r) ==
  /\ req[r].pc = "authenticate"
  /\ LET cred == ParseAuthorization(req[r].header)
         found == authenticateLookup(users, tokens, cred.token, now)
         looked == [req[r] EXCEPT !.lookups = @ + 1, !.authAt = now]
     IN  req' = [req EXCEPT ![r] =
                   IF cred.kind = "none" THEN Forwarded(@, AnonymousUser)
                   ELSE IF cred.kind = "invalid"
                   THEN Responded(@, invalidAuthenticationTokenResponse)
                   ELSE IF found.err = ErrRecordNotFound
                   THEN Responded(looked, invalidAuthenticationTokenResponse)
                   ELSE IF found.err # Nil
                   THEN Responded(looked, serverErrorResponse)
                   ELSE Forwarded(looked, contextSetUser(found.user))]
  /\ UNCHANGED <<offReq, users, tokens, issued, mails>>

\* the function of requireAuthenticatedUser, lines 177-190
RequireAuthenticatedUser(r) ==
  /\ AtStage(r, "requireAuthenticatedUser")
  /\ req' = [req EXCEPT ![r] = Staged(@, authenticatedCheck(req[r].ctx))]
  /\ UNCHANGED <<offReq, users, tokens, issued, mails>>

\* fn of requireActivatedUser, lines 204-212
RequireActivatedUser(r) ==
  /\ AtStage(r, "requireActivatedUser")
  /\ req' = [req EXCEPT ![r] = Staged(@, activatedCheck(req[r].ctx))]
  /\ UNCHANGED <<offReq, users, tokens, issued, mails>>

\* fn of requirePermission, lines 230-247
RequirePermission(r) ==
  /\ AtStage(r, "requirePermission")
  /\ LET got == PermissionModelGetAllForUser(permissions, users,
                                             req[r].ctx.user.ID)
         loaded == [req[r] EXCEPT !.loads = @ + 1]
     IN  req' = [req EXCEPT ![r] =
                   IF ~req[r].ctx.set
                   THEN recoverPanic(@, "missing user value in request context")
                   ELSE IF got.err # Nil
                   THEN Responded(loaded, serverErrorResponse)
                   ELSE Staged(loaded,
                               permissionCheck(got.permissions,
                                               req[r].route.code))]
  /\ UNCHANGED <<offReq, users, tokens, issued, mails>>

\* a handler the guards wrap (healthcheck, the movie handlers, any next):
\* it is invoked and answers
NextHandler(r) ==
  /\ AtStage(r, "handler")
  /\ req[r].route.handler \in {"healthcheck", "next", "listMovies",
                               "createMovie", "showMovie", "updateMovie",
                               "deleteMovie"}
  /\ req' = [req EXCEPT ![r] =
               Responded([@ EXCEPT !.handled = @ + 1], Response(200, ""))]
  /\ UNCHANGED <<offReq, users, tokens, issued, mails>>

----------------------------------------------------------------------------
(* cmd/api: the handlers of the users and tokens routes, one store call a   *)
(* step                                                                     *)

\* activateUser with the token of the request body: lines 119-147, then
\* Users.Update (150-161), then Tokens.DeleteAllForUser and the answer
\* (164-175)
ActivateUser(r, plaintext) ==
  /\ req[r].route.handler = "activateUser"
  /\ req[r].pc \in {"chain", "activateUser.update", "activateUser.delete"}
  /\ req[r].pc = "chain" => AtStage(r, "handler")
  /\ LET q == [req[r] EXCEPT !.handled = @ + 1, !.token = plaintext]
         looked == [q EXCEPT !.lookupAt = now]
         found == activateUserLookup(users, tokens, plaintext, now)
         updated == UserModelUpdate(users, req[r].user)
         deleted == TokenModelDeleteAllForUser(tokens, Activation,
                                               req[r].user.ID)
     IN  IF req[r].pc = "chain"
         THEN /\ req' = [req EXCEPT ![r] =
                   IF ~ValidateTokenPlaintext(plaintext)
                   THEN Responded(q, failedValidationResponse(
                                       TokenValidationError(plaintext)))
                   ELSE IF found.err = ErrRecordNotFound
                   THEN Responded(looked, failedValidationResponse(
                                            "invalid or expired token"))
                   ELSE IF found.err # Nil
                   THEN Responded(looked, serverErrorResponse)
                   ELSE [looked EXCEPT
                           !.pc = "activateUser.update",
                           !.user = [found.user EXCEPT !.Activated = TRUE]]]
              /\ UNCHANGED <<users, tokens, issued>>
         ELSE IF req[r].pc = "activateUser.update"
         THEN /\ users' = updated.tbl
              /\ req' = [req EXCEPT ![r] =
                   IF updated.err = ErrEditConflict
                   THEN Responded(@, editConflictResponse)
                   ELSE IF updated.err # Nil
                   THEN Responded(@, serverErrorResponse)
                   ELSE [@ EXCEPT !.pc = "activateUser.delete",
                                  !.user = updated.user]]
              /\ UNCHANGED <<tokens, issued>>
         ELSE /\ tokens' = deleted.tbl
              /\ issued' = {IF k.scope = Activation /\ k.user = req[r].user.ID
                            THEN [k EXCEPT !.deleted = TRUE] ELSE k :
                            k \in issued}
              /\ req' = [req EXCEPT ![r] =
                   IF deleted.err # Nil
                   THEN Responded(@, serverErrorResponse)
                   ELSE Responded(@, Response(200,
                                      "user successfully activated"))]
              /\ UNCHANGED users
  /\ UNCHANGED <<offReq, mails>>

\* the random bytes rnd have not been drawn before
Fresh(rnd) == \A k \in issued : k.plaintext # Plaintext(rnd)

\* Tokens.New for the user of the request, and the answer
NewToken(r, ttl, scope, rnd, resp) ==
  /\ Fresh(rnd)
  /\ LET new == TokenModelNew(tokens, req[r].user.ID, ttl, scope, now, rnd)
     IN  /\ tokens' = new.tbl
         /\ issued' = issued \cup
                        {[plaintext |-> new.token.Plaintext,
                          user |-> new.token.UserID,
                          scope |-> new.token.Scope,
                          at |-> now, deleted |-> FALSE]}
         /\ req' = [req EXCEPT ![r] =
                      IF new.err # Nil THEN Responded(@, serverErrorResponse)
                      ELSE Responded([@ EXCEPT !.token = new.token.Plaintext],
                                     resp)]
  /\ UNCHANGED <<offReq, users, mails>>

\* a slip: a missing record answered as the other handlers answer it
createAuthenticationTokenLookup_NotFound(q, tbl, email, password) ==
  LET got == UserModelGetByEmail(tbl, email)
  IN  IF ~ValidEmail(email)
      THEN Responded(q, failedValidationResponse(EmailError(email)))
      ELSE IF ~ValidPasswordPlaintext(password)
      THEN Responded(q, failedValidationResponse(PasswordError(password)))
      ELSE IF got.err = ErrRecordNotFound
      THEN Responded(q, notFoundResponse)
      ELSE IF got.err # Nil
      THEN Responded(q, serverErrorResponse)
      ELSE IF ~PasswordMatches(got.user.Password, password)
      THEN Responded(q, invalidCredentialsResponse)
      ELSE [q EXCEPT !.pc = "createAuthenticationToken.new",
                     !.user = got.user]

\* createAuthenticationToken, lines 189-220: the request after the body
\* was validated, the user looked up and the password compared
createAuthenticationTokenLookup(q, tbl, email, password) ==
  LET got == UserModelGetByEmail(tbl, email)
  IN  IF ~ValidEmail(email)
      THEN Responded(q, failedValidationResponse(EmailError(email)))
      ELSE IF ~ValidPasswordPlaintext(password)
      THEN Responded(q, failedValidationResponse(PasswordError(password)))
      ELSE IF got.err = ErrRecordNotFound
      THEN Responded(q, invalidCredentialsResponse)
      ELSE IF got.err # Nil
      THEN Responded(q, serverErrorResponse)
      ELSE IF ~PasswordMatches(got.user.Password, password)
      THEN Responded(q, invalidCredentialsResponse)
      ELSE [q EXCEPT !.pc = "createAuthenticationToken.new",
                     !.user = got.user]

\* createAuthenticationToken, lines 178-220
CreateAuthenticationTokenLookup(r, email, password) ==
  /\ AtStage(r, "handler")
  /\ req[r].route.handler = "createAuthenticationToken"
  /\ req' = [req EXCEPT ![r] =
               createAuthenticationTokenLookup(
                 [@ EXCEPT !.handled = @ + 1, !.email = email,
                           !.password = password],
                 users, email, password)]
  /\ UNCHANGED <<offReq, users, tokens, issued, mails>>

\* createAuthenticationToken, lines 224-240
CreateAuthenticationTokenNew(r, rnd) ==
  /\ req[r].pc = "createAuthenticationToken.new"
  /\ NewToken(r, 24 * Hour, Authentication, rnd,
              Response(201, "authentication_token"))

\* createActivationToken, lines 98-131
\* a slip: the handler without the test of user.Activated
CreateActivationTokenLookup_AnyUser(r, email) ==
  /\ AtStage(r, "handler")
  /\ req[r].route.handler = "createActivationToken"
  /\ LET q == [req[r] EXCEPT !.handled = @ + 1]
         got == UserModelGetByEmail(users, email)
     IN  req' = [req EXCEPT ![r] =
                   IF ~ValidEmail(email)
                   THEN Responded(q, failedValidationResponse(
                                       EmailError(email)))
                   ELSE IF got.err = ErrRecordNotFound
                   THEN Responded(q, notFoundResponse)
                   ELSE IF got.err # Nil
                   THEN Responded(q, serverErrorResponse)
                   ELSE [q EXCEPT !.pc = "createActivationToken.new",
                                  !.user = got.user]]
  /\ UNCHANGED <<offReq, users, tokens, issued, mails>>

CreateActivationTokenLookup(r, email) ==
  /\ AtStage(r, "handler")
  /\ req[r].route.handler = "createActivationToken"
  /\ LET q == [req[r] EXCEPT !.handled = @ + 1]
         got == UserModelGetByEmail(users, email)
     IN  req' = [req EXCEPT ![r] =
                   IF ~ValidEmail(email)
                   THEN Responded(q, failedValidationResponse(
                                       EmailError(email)))
                   ELSE IF got.err = ErrRecordNotFound
                   THEN Responded(q, notFoundResponse)
                   ELSE IF got.err # Nil
                   THEN Responded(q, serverErrorResponse)
                   ELSE IF got.user.Activated
                   THEN Responded(q, failedValidationResponse(
                                       "user already activated"))
                   ELSE [q EXCEPT !.pc = "createActivationToken.new",
                                  !.user = got.user]]
  /\ UNCHANGED <<offReq, users, tokens, issued, mails>>

\* the closure handed to app.background by the handler of request r: it
\* sends the token to the address and assigns the result to the err of
\* the handler
SendMail(r, to, template, plaintext) ==
  [of |-> r, to |-> to, template |-> template, token |-> plaintext]

\* app.background(fn): fn runs in a goroutine of its own
background(tasks, fn) == tasks \cup {fn}

\* createActivationToken, lines 133-146: Tokens.New, then the mail is
\* handed to the background
CreateActivationTokenNew(r, rnd) ==
  /\ req[r].pc = "createActivationToken.new"
  /\ Fresh(rnd)
  /\ LET new == TokenModelNew(tokens, req[r].user.ID, 72 * Hour, Activation,
                              now, rnd)
     IN  /\ tokens' = new.tbl
         /\ issued' = issued \cup
                        {[plaintext |-> new.token.Plaintext,
                          user |-> new.token.UserID,
                          scope |-> new.token.Scope,
                          at |-> now, deleted |-> FALSE]}
         /\ IF new.err # Nil
            THEN /\ req' = [req EXCEPT ![r] =
                             Responded(@, serverErrorResponse)]
                 /\ mails' = mails
            ELSE /\ req' = [req EXCEPT ![r] =
                             [@ EXCEPT !.token = new.token.Plaintext,
                                       !.pc = "writeJSON"]]
                 /\ mails' = background(mails,
                               SendMail(r, req[r].user.Email,
                                        "token_activation.tmpl",
                                        new.token.Plaintext))
  /\ UNCHANGED <<offReq, users>>

\* PermissionModel.AddForUser: a row for each code of the permissions table
PermissionModelAddForUser(ptbl, userID, codes) ==
  IF Unreachable \/ DeadlineExceeded
  THEN [err |-> ExecError, tbl |-> ptbl]
  ELSE
  [err |-> Nil,
   tbl |-> ptbl \cup {<<userID, code>> : code \in codes \cap PermissionCodes}]

\* a slip: the password of the payload is not validated
ValidateUser_NoPassword(name, email, password) ==
  IF name = "" THEN "must be provided"
  ELSE IF ~ValidEmail(email) THEN EmailError(email)
  ELSE ""

\* ValidateUser: the first message among those for name, email, password
ValidateUser(name, email, password) ==
  IF name = "" THEN "must be provided"
  ELSE IF ~ValidEmail(email) THEN EmailError(email)
  ELSE IF ~ValidPasswordPlaintext(password) THEN PasswordError(password)
  ELSE ""

\* registerUser, lines 25-74: Password.Set, ValidateUser, Users.Insert
RegisterUser(r, name, email, password) ==
  /\ AtStage(r, "handler")
  /\ req[r].route.handler = "registerUser"
  /\ LET q == [req[r] EXCEPT !.handled = @ + 1, !.email = email,
                             !.password = password, !.name = name]
         user == [NoUser EXCEPT !.Name = name, !.Email = email,
                                !.Activated = FALSE,
                                !.Password = Bcrypt(password)]
         inserted == UserModelInsert(users, user)
     IN  IF ValidateUser(name, email, password) # ""
         THEN /\ req' = [req EXCEPT ![r] =
                   Responded(q, failedValidationResponse(
                                  ValidateUser(name, email, password)))]
              /\ users' = users
         ELSE /\ users' = inserted.tbl
              /\ req' = [req EXCEPT ![r] =
                   IF inserted.err = ErrDuplicateEmail
                   THEN Responded(q, failedValidationResponse(
                          "a user with this email address already exists"))
                   ELSE IF inserted.err # Nil
                   THEN Responded(q, serverErrorResponse)
                   ELSE [q EXCEPT !.pc = "registerUser.new",
                                  !.user = inserted.user]]
  /\ UNCHANGED <<offReq, tokens, issued, mails>>

\* registerUser, lines 76-81: Tokens.New
RegisterUserNew(r, rnd) ==
  /\ req[r].pc = "registerUser.new"
  /\ Fresh(rnd)
  /\ LET new == TokenModelNew(tokens, req[r].user.ID, 72 * Hour, Activation,
                              now, rnd)
     IN  /\ tokens' = new.tbl
         /\ issued' = issued \cup
                        {[plaintext |-> new.token.Plaintext,
                          user |-> new.token.UserID,
                          scope |-> new.token.Scope,
                          at |-> now, deleted |-> FALSE]}
         /\ req' = [req EXCEPT ![r] =
                      IF new.err # Nil THEN Responded(@, serverErrorResponse)
                      ELSE [@ EXCEPT !.token = new.token.Plaintext,
                                     !.pc = "registerUser.permit"]]
  /\ UNCHANGED <<offReq, users, mails>>

\* registerUser, lines 83-103: Permissions.AddForUser, then the welcome
\* mail is handed to the background
RegisterUserPermit(r) ==
  /\ req[r].pc = "registerUser.permit"
  /\ LET added == PermissionModelAddForUser(permissions, req[r].user.ID,
                                            {MoviesRead})
     IN  /\ permissions' = added.tbl
         /\ IF added.err # Nil
            THEN /\ req' = [req EXCEPT ![r] =
                             Responded(@, serverErrorResponse)]
                 /\ mails' = mails
            ELSE /\ req' = [req EXCEPT ![r] = [@ EXCEPT !.pc = "writeJSON"]]
                 /\ mails' = background(mails,
                               SendMail(r, req[r].user.Email,
                                        "user_welcome.tmpl", req[r].token))
  /\ UNCHANGED <<movies, caller, limVars, db, srv, kept, users, tokens,
                 issued>>

\* the body of the 202 of each handler that sends a mail
AcceptedResponse(handler) ==
  IF handler = "registerUser" THEN Response(202, "user")
  ELSE Response(202,
         "an email will be sent to you containing activation instructions")

\* err = app.writeJSON(w, http.StatusAccepted, ...): users_handlers.go
\* line 106, createActivationToken line 150
WriteAccepted(r) ==
  /\ req[r].pc = "writeJSON"
  /\ req' = [req EXCEPT ![r] =
               [Responded(@, AcceptedResponse(@.route.handler))
                  EXCEPT !.pc = "return", !.err = Nil]]
  /\ UNCHANGED <<offReq, users, tokens, issued, mails>>

\* if err != nil { app.serverErrorResponse(w, r, err) }: users_handlers.go
\* lines 107-110, createActivationToken lines 151-154
ReturnAccepted(r) ==
  /\ req[r].pc = "return"
  /\ req' = [req EXCEPT ![r] =
               IF @.err # Nil THEN Responded(@, serverErrorResponse)
               ELSE [@ EXCEPT !.pc = "done"]]
  /\ UNCHANGED <<offReq, users, tokens, issued, mails>>

\* the handler that spawned the task m has not returned: its err is the
\* variable the closure assigns to
Captured(m) ==
  /\ req[m.of].pc \in {"writeJSON", "return"}
  /\ req[m.of].token = m.token

\* the closure runs: err = app.mailer.Send(...), with result Nil or an
\* error; users_handlers.go lines 99-102, createActivationToken 142-145
MailSend(m, result) ==
  /\ m \in mails
  /\ mails' = mails \ {m}
  /\ req' = IF Captured(m)
            THEN [req EXCEPT ![m.of] = [@ EXCEPT !.err = result]]
            ELSE req
  /\ UNCHANGED <<offReq, users, tokens, issued>>

MailResults == {Nil, ErrMail}

----------------------------------------------------------------------------
(* The chain with the guards: requests of two registered users and of      *)
(* strangers                                                                *)

\* a well-formed token nobody was given, and tokens of the wrong length
Guess == <<Piece("guess", 0, TokenLength)>>
Short == <<Piece("guess", 0, TokenLength - 1)>>
Long == <<Piece("guess", 0, TokenLength + 1)>>

\* what a client may send as its token
Credentials ==
  {Plaintext(rnd) : rnd \in 1..MaxTokens} \cup {Guess, Short, Long, <<>>}

BearerHeader(plaintext) == Str("Bearer", 6) \o <<Space>> \o plaintext

\* Authorization headers: none, "Bearer <token>", and other shapes
Headers ==
  {<<>>}
  \cup {BearerHeader(p) : p \in Credentials}
  \cup {Str("Bearer", 6), <<Space>>, Plaintext(1),
        Str("Basic", 5) \o <<Space>> \o Plaintext(1),
        Str("bearer", 6) \o <<Space>> \o Plaintext(1),
        Str("Bearer", 6) \o <<Space, Space>> \o Plaintext(1),
        BearerHeader(Plaintext(1)) \o <<Space>>}

Route(handler, guard, code) ==
  [handler |-> handler, guard |-> guard, code |-> code]

\* routes(), and a handler next behind each of the two other guards
Routes ==
  {Route("healthcheck", "none", ""),
   Route("next", "requireAuthenticatedUser", ""),
   Route("next", "requireActivatedUser", ""),
   Route("listMovies", "requirePermission", MoviesRead),
   Route("createMovie", "requirePermission", MoviesWrite),
   Route("activateUser", "none", ""),
   Route("createActivationToken", "none", ""),
   Route("createAuthenticationToken", "none", "")}

IssuingRoutes ==
  {rt \in Routes : rt.handler \in {"createActivationToken",
                                   "createAuthenticationToken"}}

Passwords == {"pa55word", "0therpa55word", "pa55"}
BodyEmails == {"a@x.io", "b@x.io", "c@x.io", "nobody"}

\* the users table with its two registered users
RegisteredUsers(activated) ==
  [i \in UserIDs |->
     IF i = 1
     THEN [exists |-> TRUE, name |-> "ann", email |-> "a@x.io",
           password_hash |-> Bcrypt("pa55word"), activated |-> activated,
           version |-> InitialVersion]
     ELSE IF i = 2
     THEN [exists |-> TRUE, name |-> "bob", email |-> "b@x.io",
           password_hash |-> Bcrypt("pa55word"), activated |-> FALSE,
           version |-> InitialVersion]
     ELSE NoUserRow]

\* the database holds ann, activated or not and with any permissions, and
\* bob as registerUser leaves him; the limiter is switched off
InitGuard ==
  /\ movies = [i \in MovieIDs |-> NoMovieRow]
  /\ caller = [c \in Callers |-> IdleCaller]
  /\ \E activated \in BOOLEAN : users = RegisteredUsers(activated)
  /\ \E codes \in SUBSET PermissionCodes :
       permissions = {<<1, c>> : c \in codes} \cup {<<2, MoviesRead>>}
  /\ tokens = {}
  /\ issued = {}
  /\ db = "up"
  /\ srv = Listening
  /\ mails = {}
  /\ now = 0
  /\ config = [limiter |-> [rps |-> DefaultRps, burst |-> DefaultBurst,
                            enabled |-> FALSE]]
  /\ mu = ""
  /\ clients = [ip \in IPs |-> NoClient]
  /\ kept = [ip \in IPs |-> NoClient]
  /\ sweep = [pc |-> "sleep", wake |-> SweepInterval]
  /\ req = [r \in Reqs |-> NoRequest]
  /\ admitted = [ip \in IPs |-> 0]
  /\ served = 0

\* the goroutine that serves the requests of the guard claims
OneReq == {"r1"}

\* crypto/rand never yields the same 16 bytes twice; which bytes it yields
\* makes no difference but to their name, so the next draw is the least
\* number not yet drawn
NextRandom == {rnd \in 1..MaxTokens : Cardinality(issued) + 1 = rnd}

\* a request for a route that issues a token arrives only while random
\* bytes are left to draw
ReceiveGuarded(r, ip, header, route) ==
  /\ route \in IssuingRoutes => Cardinality(issued) < MaxTokens
  /\ Receive(r, ip, header, route)

NextGuard ==
  \/ \E r \in OneReq, ip \in OneIP, h \in Headers, rt \in Routes :
       ReceiveGuarded(r, ip, h, rt)
  \/ \E r \in OneReq : RateLimitEnter(r)
  \/ \E r \in OneReq : Authenticate(r)
  \/ \E r \in OneReq : RequireAuthenticatedUser(r)
  \/ \E r \in OneReq : RequireActivatedUser(r)
  \/ \E r \in OneReq : RequirePermission(r)
  \/ \E r \in OneReq : NextHandler(r)
  \/ \E r \in OneReq, p \in Credentials : ActivateUser(r, p)
  \/ \E r \in OneReq, e \in BodyEmails, pw \in Passwords :
       CreateAuthenticationTokenLookup(r, e, pw)
  \/ \E r \in OneReq, rnd \in NextRandom : CreateAuthenticationTokenNew(r, rnd)
  \/ \E r \in OneReq, e \in BodyEmails : CreateActivationTokenLookup(r, e)
  \/ \E r \in OneReq, rnd \in NextRandom : CreateActivationTokenNew(r, rnd)
  \/ \E r \in OneReq : WriteAccepted(r)
  \/ \E r \in OneReq : ReturnAccepted(r)
  \/ \E m \in mails, result \in MailResults : MailSend(m, result)
  \/ \E r \in OneReq : Finish(r)

\* authenticate, the guards and the handlers of the users and tokens routes
SpecGuard == InitGuard /\ [][NextGuard]_vars

----------------------------------------------------------------------------
(* The life of a token: the routes that issue and take tokens, and the     *)
(* clock                                                                    *)

\* the clock moves by quarter seconds shortly after the start (TickSmall)
\* and to the next full day
TickDay ==
  /\ now < MaxDays * 24 * Hour
  /\ Pass(24 * Hour - (now % (24 * Hour)))

\* ann is activated, bob is not
InitToken ==
  /\ movies = [i \in MovieIDs |-> NoMovieRow]
  /\ caller = [c \in Callers |-> IdleCaller]
  /\ users = RegisteredUsers(TRUE)
  /\ permissions = {<<1, MoviesRead>>, <<2, MoviesRead>>}
  /\ tokens = {}
  /\ issued = {}
  /\ db = "up"
  /\ srv = Listening
  /\ mails = {}
  /\ now = 0
  /\ config = [limiter |-> [rps |-> DefaultRps, burst |-> DefaultBurst,
                            enabled |-> FALSE]]
  /\ mu = ""
  /\ clients = [ip \in IPs |-> NoClient]
  /\ kept = [ip \in IPs |-> NoClient]
  /\ sweep = [pc |-> "sleep", wake |-> SweepInterval]
  /\ req = [r \in Reqs |-> NoRequest]
  /\ admitted = [ip \in IPs |-> 0]
  /\ served = 0

\* no header, or a well-formed token: one that may be issued, or a guess
TokenHeaders ==
  {<<>>} \cup {BearerHeader(p) : p \in Credentials \ {Short, Long, <<>>}}

TokenRoutes ==
  IssuingRoutes \cup {Route("activateUser", "none", ""),
                      Route("next", "requireAuthenticatedUser", "")}

NextToken ==
  \/ TickSmall
  \/ TickDay
  \/ \E r \in OneReq, ip \in OneIP, h \in TokenHeaders, rt \in TokenRoutes :
       ReceiveGuarded(r, ip, h, rt)
  \/ \E r \in OneReq : RateLimitEnter(r)
  \/ \E r \in OneReq : Authenticate(r)
  \/ \E r \in OneReq : RequireAuthenticatedUser(r)
  \/ \E r \in OneReq : NextHandler(r)
  \/ \E r \in OneReq, p \in Credentials : ActivateUser(r, p)
  \/ \E r \in OneReq, e \in BodyEmails, pw \in Passwords :
       CreateAuthenticationTokenLookup(r, e, pw)
  \/ \E r \in OneReq, rnd \in NextRandom : CreateAuthenticationTokenNew(r, rnd)
  \/ \E r \in OneReq, e \in BodyEmails : CreateActivationTokenLookup(r, e)
  \/ \E r \in OneReq, rnd \in NextRandom : CreateActivationTokenNew(r, rnd)
  \/ \E r \in OneReq : WriteAccepted(r)
  \/ \E r \in OneReq : ReturnAccepted(r)
  \/ \E m \in mails, result \in MailResults : MailSend(m, result)
  \/ \E r \in OneReq : Finish(r)

\* tokens issued, presented and expiring over four days
SpecToken == InitToken /\ [][NextToken]_vars

----------------------------------------------------------------------------
(* The whole chain with the limiter switched on *)

\* a request arrives with its header for a route, one of at most max
ReceiveWithin(r, ip, header, route, max) ==
  /\ req[r].pc = "none"
  /\ served < max
  /\ served' = served + 1
  /\ req' = [req EXCEPT ![r] = [NoRequest EXCEPT !.pc = "rateLimit",
                                                 !.ip = ip,
                                                 !.header = header,
                                                 !.route = route,
                                                 !.was = users]]
  /\ UNCHANGED <<dbVars, now, config, mu, clients, sweep, admitted>>

\* what TokenModel.New has stored and returned for the random bytes rnd,
\* called when the process started
Seeded(userID, scope, rnd) ==
  [row |-> [hash |-> Sha256(Plaintext(rnd)), user_id |-> userID,
            expiry |-> Timestamp0(IF scope = Activation THEN 72 * Hour
                                  ELSE 24 * Hour),
            scope |-> scope],
   key |-> [plaintext |-> Plaintext(rnd), user |-> userID, scope |-> scope,
            at |-> 0, deleted |-> FALSE]]

\* ann is activated and may read, bob is not activated; each holds an
\* authentication token; the limiter is on with a burst of 1..MaxBurst
InitThrottle ==
  /\ db = "up"
  /\ srv = Listening
  /\ mails = {}
  /\ movies = [i \in MovieIDs |-> NoMovieRow]
  /\ caller = [c \in Callers |-> IdleCaller]
  /\ users = RegisteredUsers(TRUE)
  /\ permissions = {<<1, MoviesRead>>, <<2, MoviesRead>>}
  /\ tokens = {Seeded(1, Authentication, 1).row,
               Seeded(2, Authentication, 2).row}
  /\ issued = {Seeded(1, Authentication, 1).key,
               Seeded(2, Authentication, 2).key}
  /\ now = 0
  /\ config \in [limiter : [rps : {DefaultRps}, burst : 1..MaxBurst,
                            enabled : {TRUE}]]
  /\ mu = ""
  /\ clients = [ip \in IPs |-> NoClient]
  /\ kept = [ip \in IPs |-> NoClient]
  /\ sweep = [pc |-> "sleep", wake |-> SweepInterval]
  /\ req = [r \in Reqs |-> NoRequest]
  /\ admitted = [ip \in IPs |-> 0]
  /\ served = 0

\* no credential, ann's token, bob's token, a token nobody was given
ThrottleHeaders ==
  {<<>>, BearerHeader(Plaintext(1)), BearerHeader(Plaintext(2)),
   BearerHeader(Guess)}

ThrottleRoutes ==
  {Route("healthcheck", "none", ""),
   Route("listMovies", "requirePermission", MoviesRead),
   Route("createMovie", "requirePermission", MoviesWrite)}

NextThrottle ==
  \/ TickSmall
  \/ \E r \in OneReq, ip \in OneIP, h \in ThrottleHeaders,
        rt \in ThrottleRoutes :
       ReceiveWithin(r, ip, h, rt, MaxRequests)
  \/ \E r \in OneReq : RateLimitEnter(r)
  \/ \E r \in OneReq : RateLimitLock(r)
  \/ \E r \in OneReq : RateLimitLookup(r)
  \/ \E r \in OneReq : RateLimitCreate(r)
  \/ \E r \in OneReq : RateLimitSeen(r)
  \/ \E r \in OneReq : RateLimitAllow(r)
  \/ \E r \in OneReq : RateLimitUnlock(r)
  \/ \E r \in OneReq : RateLimitExceeded(r)
  \/ \E r \in OneReq : Authenticate(r)
  \/ \E r \in OneReq : RequireAuthenticatedUser(r)
  \/ \E r \in OneReq : RequireActivatedUser(r)
  \/ \E r \in OneReq : RequirePermission(r)
  \/ \E r \in OneReq : NextHandler(r)
  \/ \E r \in OneReq : Finish(r)

\* the requests of one client in the first second, through rateLimit,
\* authenticate and the guards
SpecThrottle == InitThrottle /\ [][NextThrottle]_vars

----------------------------------------------------------------------------
(* Credentials: concurrent requests for POST /v1/tokens/authentication *)

NextCredentials ==
  \/ TickSmall
  \/ \E r \in Reqs, ip \in OneIP :
       ReceiveGuarded(r, ip, <<>>,
                      Route("createAuthenticationToken", "none", ""))
  \/ \E r \in Reqs : RateLimitEnter(r)
  \/ \E r \in Reqs : Authenticate(r)
  \/ \E r \in Reqs, e \in BodyEmails, pw \in Passwords :
       CreateAuthenticationTokenLookup(r, e, pw)
  \/ \E r \in Reqs, rnd \in NextRandom : CreateAuthenticationTokenNew(r, rnd)
  \/ \E r \in Reqs : Finish(r)

SpecCredentials == InitToken /\ [][NextCredentials]_vars

----------------------------------------------------------------------------
(* Mail: requests for POST /v1/users and POST /v1/tokens/activation, and   *)
(* the mails they send in the background                                   *)

\* ann is registered and not activated; nobody else is
InitMail ==
  /\ db = "up"
  /\ srv = Listening
  /\ mails = {}
  /\ movies = [i \in MovieIDs |-> NoMovieRow]
  /\ caller = [c \in Callers |-> IdleCaller]
  /\ users = [i \in UserIDs |->
                IF i = 1 THEN RegisteredUsers(FALSE)[1] ELSE NoUserRow]
  /\ permissions = {<<1, MoviesRead>>}
  /\ tokens = {}
  /\ issued = {}
  /\ now = 0
  /\ config = [limiter |-> [rps |-> DefaultRps, burst |-> DefaultBurst,
                            enabled |-> FALSE]]
  /\ mu = ""
  /\ clients = [ip \in IPs |-> NoClient]
  /\ kept = [ip \in IPs |-> NoClient]
  /\ sweep = [pc |-> "sleep", wake |-> SweepInterval]
  /\ req = [r \in Reqs |-> NoRequest]
  /\ admitted = [ip \in IPs |-> 0]
  /\ served = 0

MailRoutes ==
  {Route("registerUser", "none", ""),
   Route("createActivationToken", "none", "")}

\* the requests of registerUser that have not called Users.Insert
Registering ==
  {q \in Reqs : /\ req[q].route.handler = "registerUser"
                /\ req[q].pc \notin {"none", "done"}
                /\ req[q].user.ID = 0}

\* a request for a route that issues a token arrives only while random
\* bytes are left to draw and an id is left for a new user
ReceiveMail(r, ip, route) ==
  /\ Cardinality(issued) < MaxTokens
  /\ route.handler = "registerUser"
       => NextID(users) + Cardinality(Registering) \in UserIDs
  /\ Receive(r, ip, <<>>, route)

BodyNames == {"bob", ""}

NextMail ==
  \/ \E r \in Reqs, ip \in OneIP, rt \in MailRoutes : ReceiveMail(r, ip, rt)
  \/ \E r \in Reqs : RateLimitEnter(r)
  \/ \E r \in Reqs : Authenticate(r)
  \/ \E r \in Reqs, n \in BodyNames, e \in BodyEmails, pw \in Passwords :
       RegisterUser(r, n, e, pw)
  \/ \E r \in Reqs, rnd \in NextRandom : RegisterUserNew(r, rnd)
  \/ \E r \in Reqs : RegisterUserPermit(r)
  \/ \E r \in Reqs, e \in BodyEmails : CreateActivationTokenLookup(r, e)
  \/ \E r \in Reqs, rnd \in NextRandom : CreateActivationTokenNew(r, rnd)
  \/ \E r \in Reqs : WriteAccepted(r)
  \/ \E r \in Reqs : ReturnAccepted(r)
  \/ \E m \in mails, result \in MailResults : MailSend(m, result)
  \/ \E r \in Reqs : Finish(r)

SpecMail == InitMail /\ [][NextMail]_vars

----------------------------------------------------------------------------
(* cmd/api: serve, and the shutdown of the server while mails are on their *)
(* way                                                                     *)

\* serve, line 45: the time srv.Shutdown is given
ShutdownTimeout == 30 * Second

\* serve, line 37: the signals relayed to quit
Signals == {"SIGINT", "SIGTERM"}

\* http.Server: the requests whose handler has not returned
ActiveConns == {r \in Reqs : req[r].pc # "none"}

\* serve, lines 40-49 and 62-65: the signal is read from quit and
\* srv.Shutdown is called; the listeners are closed and ListenAndServe
\* returns ErrServerClosed
Signal(s) ==
  /\ srv.pc = "listening"
  /\ srv' = [srv EXCEPT !.pc = "shutdown", !.signal = s, !.since = now]
  /\ UNCHANGED <<movies, users, caller, tokens, permissions, issued, mails,
                 db, kept, limVars, req>>

\* serve, lines 49 and 68-76: Shutdown returns nil once no connection is
\* active, or the error of its context after ShutdownTimeout; serve takes
\* the result from shutDownErr and returns it
ServeReturn ==
  /\ srv.pc = "shutdown"
  /\ \/ /\ ActiveConns = {}
        /\ srv' = [srv EXCEPT !.pc = "returned", !.err = Nil]
     \/ /\ ActiveConns # {}
        /\ now >= srv.since + ShutdownTimeout
        /\ srv' = [srv EXCEPT !.pc = "returned", !.err = ErrDeadline]
  /\ UNCHANGED <<movies, users, caller, tokens, permissions, issued, mails,
                 db, kept, limVars, req>>

\* the server accepts requests while it listens
Accept(r, ip, route) ==
  /\ srv.pc = "listening"
  /\ ReceiveMail(r, ip, route)

NextShutdown ==
  \/ \E r \in OneReq, ip \in OneIP, rt \in MailRoutes : Accept(r, ip, rt)
  \/ \E r \in OneReq : RateLimitEnter(r)
  \/ \E r \in OneReq : Authenticate(r)
  \/ \E r \in OneReq, n \in BodyNames, e \in BodyEmails, pw \in Passwords :
       RegisterUser(r, n, e, pw)
  \/ \E r \in OneReq, rnd \in NextRandom : RegisterUserNew(r, rnd)
  \/ \E r \in OneReq : RegisterUserPermit(r)
  \/ \E r \in OneReq, e \in BodyEmails : CreateActivationTokenLookup(r, e)
  \/ \E r \in OneReq, rnd \in NextRandom : CreateActivationTokenNew(r, rnd)
  \/ \E r \in OneReq : WriteAccepted(r)
  \/ \E r \in OneReq : ReturnAccepted(r)
  \/ \E m \in mails, result \in MailResults : MailSend(m, result)
  \/ \E r \in OneReq : Finish(r)
  \/ \E s \in Signals : Signal(s)
  \/ ServeReturn
  \/ TickMinute

SpecShutdown == InitMail /\ [][NextShutdown]_vars

----------------------------------------------------------------------------
(* Registration: concurrent requests for POST /v1/users, nobody registered *)

InitRegister ==
  /\ db = "up"
  /\ srv = Listening
  /\ mails = {}
  /\ movies = [i \in MovieIDs |-> NoMovieRow]
  /\ caller = [c \in Callers |-> IdleCaller]
  /\ users = [i \in UserIDs |-> NoUserRow]
  /\ permissions = {}
  /\ tokens = {}
  /\ issued = {}
  /\ now = 0
  /\ config = [limiter |-> [rps |-> DefaultRps, burst |-> DefaultBurst,
                            enabled |-> FALSE]]
  /\ mu = ""
  /\ clients = [ip \in IPs |-> NoClient]
  /\ kept = [ip \in IPs |-> NoClient]
  /\ sweep = [pc |-> "sleep", wake |-> SweepInterval]
  /\ req = [r \in Reqs |-> NoRequest]
  /\ admitted = [ip \in IPs |-> 0]
  /\ served = 0

\* addresses that differ in case only, another one, and one that is none
RegisterEmails == {"a@x.io", "A@x.io", "b@x.io", "nobody"}

NextRegister ==
  \/ \E r \in Reqs, ip \in OneIP :
       ReceiveMail(r, ip, Route("registerUser", "none", ""))
  \/ \E r \in Reqs : RateLimitEnter(r)
  \/ \E r \in Reqs : Authenticate(r)
  \/ \E r \in Reqs, n \in OneName, e \in RegisterEmails, pw \in Passwords :
       RegisterUser(r, n, e, pw)
  \/ \E r \in Reqs, rnd \in NextRandom : RegisterUserNew(r, rnd)
  \/ \E r \in Reqs : RegisterUserPermit(r)
  \/ \E r \in Reqs : WriteAccepted(r)
  \/ \E r \in Reqs : ReturnAccepted(r)
  \/ \E m \in mails, result \in MailResults : MailSend(m, result)
  \/ \E r \in Reqs : Finish(r)

SpecRegister == InitRegister /\ [][NextRegister]_vars

----------------------------------------------------------------------------
(* Storage: the requests that issue tokens, with a database that comes and *)
(* goes                                                                     *)

\* the connection to the database is lost, at any moment
ConnectionLost ==
  /\ db = "up"
  /\ db' = "down"
  /\ UNCHANGED <<movies, users, caller, tokens, permissions, issued, mails,
                 srv, kept, limVars, req>>

ConnectionRestored ==
  /\ db = "down"
  /\ db' = "up"
  /\ UNCHANGED <<movies, users, caller, tokens, permissions, issued, mails,
                 srv, kept, limVars, req>>

StorageRoutes ==
  MailRoutes \cup {Route("createAuthenticationToken", "none", "")}

NextStorage ==
  \/ ConnectionLost
  \/ ConnectionRestored
  \/ \E r \in OneReq, ip \in OneIP, rt \in StorageRoutes :
       ReceiveMail(r, ip, rt)
  \/ \E r \in OneReq : RateLimitEnter(r)
  \/ \E r \in OneReq : Authenticate(r)
  \/ \E r \in OneReq, n \in BodyNames, e \in BodyEmails, pw \in Passwords :
       RegisterUser(r, n, e, pw)
  \/ \E r \in OneReq, rnd \in NextRandom : RegisterUserNew(r, rnd)
  \/ \E r \in OneReq : RegisterUserPermit(r)
  \/ \E r \in OneReq, e \in BodyEmails : CreateActivationTokenLookup(r, e)
  \/ \E r \in OneReq, rnd \in NextRandom : CreateActivationTokenNew(r, rnd)
  \/ \E r \in OneReq, e \in BodyEmails, pw \in Passwords :
       CreateAuthenticationTokenLookup(r, e, pw)
  \/ \E r \in OneReq, rnd \in NextRandom : CreateAuthenticationTokenNew(r, rnd)
  \/ \E r \in OneReq : WriteAccepted(r)
  \/ \E r \in OneReq : ReturnAccepted(r)
  \/ \E m \in mails, result \in MailResults : MailSend(m, result)
  \/ \E r \in OneReq : Finish(r)

SpecStorage == InitMail /\ [][NextStorage]_vars

----------------------------------------------------------------------------
(* The sweep of rateLimit over the minutes *)

\* the limiter is on: requests of two clients, the sweep and the clock
InitSweep ==
  /\ InitDB
  /\ caller = [c \in Callers |-> IdleCaller]
  /\ now = 0
  /\ config \in [limiter : [rps : {DefaultRps}, burst : 1..MaxBurst,
                            enabled : {TRUE}]]
  /\ mu = ""
  /\ clients = [ip \in IPs |-> NoClient]
  /\ kept = [ip \in IPs |-> NoClient]
  /\ sweep = [pc |-> "sleep", wake |-> SweepInterval]
  /\ req = [r \in Reqs |-> NoRequest]
  /\ admitted = [ip \in IPs |-> 0]
  /\ served = 0

\* the statements of rateLimit that a request executes with the mutex held
RateLimitCritical(r) ==
  \/ RateLimitLookup(r)
  \/ RateLimitCreate(r)
  \/ RateLimitSeen(r)
  \/ RateLimitAllow(r)
  \/ RateLimitUnlock(r)

NextSweep ==
  \/ TickSmall
  \/ TickMinute
  \/ \E r \in OneReq, ip \in IPs : Arrive(r, ip, TRUE)
  \/ \E r \in OneReq : RateLimitEnter(r)
  \/ \E r \in OneReq : RateLimitLock(r)
  \/ \E r \in OneReq : RateLimitLookup(r)
  \/ \E r \in OneReq : RateLimitCreate(r)
  \/ \E r \in OneReq : RateLimitSeen(r)
  \/ \E r \in OneReq : RateLimitAllow(r)
  \/ \E r \in OneReq : RateLimitUnlock(r)
  \/ \E r \in OneReq : RateLimitExceeded(r)
  \/ \E r \in OneReq : Downstream(r)
  \/ \E r \in OneReq : Finish(r)
  \/ SweepLock
  \/ SweepScan
  \/ SweepUnlock

\* the clock goes on, a goroutine that can run does, and a goroutine that
\* waits for the mutex gets it (sync.Mutex hands a starving waiter the lock)
SpecSweep ==
  /\ InitSweep
  /\ [][NextSweep]_vars
  /\ WF_vars(TickMinute)
  /\ \A r \in OneReq : WF_vars(RateLimitCritical(r))
  /\ SF_vars(SweepLock)
  /\ WF_vars(SweepScan)
  /\ WF_vars(SweepUnlock)

----------------------------------------------------------------------------
(* Eviction: the limiter with its sweep beside a limiter that never sweeps, *)
(* for the default rate and for a rate at which a bucket does not refill   *)

\* -limiter-rps: the default, and no refill at all
Rates == {0, DefaultRps}

InitEvict ==
  /\ InitDB
  /\ caller = [c \in Callers |-> IdleCaller]
  /\ now = 0
  /\ config \in [limiter : [rps : Rates, burst : 1..MaxBurst,
                            enabled : {TRUE}]]
  /\ mu = ""
  /\ clients = [ip \in IPs |-> NoClient]
  /\ kept = [ip \in IPs |-> NoClient]
  /\ sweep = [pc |-> "sleep", wake |-> SweepInterval]
  /\ req = [r \in Reqs |-> NoRequest]
  /\ admitted = [ip \in IPs |-> 0]
  /\ served = 0

\* the critical sections take no time: the clock moves while the mutex is
\* free
TickFree ==
  /\ mu = ""
  /\ TickMinute

NextEvict ==
  \/ TickFree
  \/ \E r \in OneReq, ip \in IPs : Arrive(r, ip, TRUE)
  \/ \E r \in OneReq : RateLimitEnter(r)
  \/ \E r \in OneReq : RateLimitLock(r)
  \/ \E r \in OneReq : RateLimitLookup(r)
  \/ \E r \in OneReq : RateLimitCreate(r)
  \/ \E r \in OneReq : RateLimitSeen(r)
  \/ \E r \in OneReq : RateLimitAllow(r)
  \/ \E r \in OneReq : RateLimitUnlock(r)
  \/ \E r \in OneReq : RateLimitExceeded(r)
  \/ \E r \in OneReq : Downstream(r)
  \/ \E r \in OneReq : Finish(r)
  \/ SweepLock
  \/ SweepScan
  \/ SweepUnlock

SpecEvict == InitEvict /\ [][NextEvict]_vars

----------------------------------------------------------------------------
(* Deadlines: requests of ann and of strangers, with a database that at    *)
(* times does not answer within QueryTimeout                               *)

\* the database stops answering in time, at any moment
DatabaseSlow ==
  /\ db = "up"
  /\ db' = "slow"
  /\ UNCHANGED <<movies, users, caller, tokens, permissions, issued, mails,
                 srv, kept, limVars, req>>

DatabaseFast ==
  /\ db = "slow"
  /\ db' = "up"
  /\ UNCHANGED <<movies, users, caller, tokens, permissions, issued, mails,
                 srv, kept, limVars, req>>

\* ann is registered and activated, may read movies, and holds an
\* authentication token; nobody else is registered
InitDeadline ==
  /\ db = "up"
  /\ srv = Listening
  /\ mails = {}
  /\ movies = [i \in MovieIDs |-> NoMovieRow]
  /\ caller = [c \in Callers |-> IdleCaller]
  /\ users = [i \in UserIDs |->
                IF i = 1 THEN RegisteredUsers(TRUE)[1] ELSE NoUserRow]
  /\ permissions = {<<1, MoviesRead>>}
  /\ tokens = {Seeded(1, Authentication, 1).row}
  /\ issued = {Seeded(1, Authentication, 1).key}
  /\ now = 0
  /\ config = [limiter |-> [rps |-> DefaultRps, burst |-> DefaultBurst,
                            enabled |-> FALSE]]
  /\ mu = ""
  /\ clients = [ip \in IPs |-> NoClient]
  /\ kept = [ip \in IPs |-> NoClient]
  /\ sweep = [pc |-> "sleep", wake |-> SweepInterval]
  /\ req = [r \in Reqs |-> NoRequest]
  /\ admitted = [ip \in IPs |-> 0]
  /\ served = 0

DeadlineHeaders == {<<>>, BearerHeader(Plaintext(1)), BearerHeader(Guess)}

DeadlineRoutes ==
  {Route("registerUser", "none", ""),
   Route("createAuthenticationToken", "none", ""),
   Route("listMovies", "requirePermission", MoviesRead),
   Route("activateUser", "none", "")}

\* a request arrives, for a route that issues a token only while random
\* bytes are left to draw and an id is left for a new user
ReceiveIssuing(r, ip, header, route) ==
  /\ route \in StorageRoutes => Cardinality(issued) < MaxTokens
  /\ route.handler = "registerUser"
       => NextID(users) + Cardinality(Registering) \in UserIDs
  /\ Receive(r, ip, header, route)

NextDeadline ==
  \/ DatabaseSlow
  \/ DatabaseFast
  \/ \E r \in OneReq, ip \in OneIP, h \in DeadlineHeaders,
        rt \in DeadlineRoutes : ReceiveIssuing(r, ip, h, rt)
  \/ \E r \in OneReq : RateLimitEnter(r)
  \/ \E r \in OneReq : Authenticate(r)
  \/ \E r \in OneReq : RequireAuthenticatedUser(r)
  \/ \E r \in OneReq : RequireActivatedUser(r)
  \/ \E r \in OneReq : RequirePermission(r)
  \/ \E r \in OneReq : NextHandler(r)
  \/ \E r \in OneReq, p \in {Plaintext(1), Plaintext(2), Guess} :
       ActivateUser(r, p)
  \/ \E r \in OneReq, n \in BodyNames, e \in BodyEmails, pw \in Passwords :
       RegisterUser(r, n, e, pw)
  \/ \E r \in OneReq, rnd \in NextRandom : RegisterUserNew(r, rnd)
  \/ \E r \in OneReq : RegisterUserPermit(r)
  \/ \E r \in OneReq, e \in BodyEmails, pw \in Passwords :
       CreateAuthenticationTokenLookup(r, e, pw)
  \/ \E r \in OneReq, rnd \in NextRandom : CreateAuthenticationTokenNew(r, rnd)
  \/ \E r \in OneReq : WriteAccepted(r)
  \/ \E r \in OneReq : ReturnAccepted(r)
  \/ \E m \in mails, result \in MailResults : MailSend(m, result)
  \/ \E r \in OneReq : Finish(r)

SpecDeadline == InitDeadline /\ [][NextDeadline]_vars

----------------------------------------------------------------------------
(* Malformed input: headers, activation tokens and user payloads of any    *)
(* shape, from two clients at once                                         *)

MalformedRoutes ==
  {Route("healthcheck", "none", ""),
   Route("registerUser", "none", ""),
   Route("activateUser", "none", "")}

NextMalformed ==
  \/ \E r \in Reqs, ip \in OneIP, h \in Headers, rt \in MalformedRoutes :
       ReceiveIssuing(r, ip, h, rt)
  \/ \E r \in Reqs : RateLimitEnter(r)
  \/ \E r \in Reqs : Authenticate(r)
  \/ \E r \in Reqs : NextHandler(r)
  \/ \E r \in Reqs, p \in Credentials : ActivateUser(r, p)
  \/ \E r \in Reqs, n \in BodyNames, e \in BodyEmails, pw \in Passwords :
       RegisterUser(r, n, e, pw)
  \/ \E r \in Reqs, rnd \in NextRandom : RegisterUserNew(r, rnd)
  \/ \E r \in Reqs : RegisterUserPermit(r)
  \/ \E r \in Reqs : WriteAccepted(r)
  \/ \E r \in Reqs : ReturnAccepted(r)
  \/ \E m \in mails, result \in MailResults : MailSend(m, result)
  \/ \E r \in Reqs : Finish(r)

SpecMalformed == InitDeadline /\ [][NextMalformed]_vars

----------------------------------------------------------------------------
(* Activation: concurrent requests for PUT /v1/users/activated *)

\* ann and bob are registered and not activated; bob holds two activation
\* tokens and an authentication token, ann one activation token
InitActivate ==
  /\ db = "up"
  /\ srv = Listening
  /\ mails = {}
  /\ movies = [i \in MovieIDs |-> NoMovieRow]
  /\ caller = [c \in Callers |-> IdleCaller]
  /\ users = RegisteredUsers(FALSE)
  /\ permissions = {<<1, MoviesRead>>, <<2, MoviesRead>>}
  /\ tokens = {Seeded(2, Activation, 1).row, Seeded(2, Activation, 2).row,
               Seeded(2, Authentication, 3).row,
               Seeded(1, Activation, 4).row}
  /\ issued = {Seeded(2, Activation, 1).key, Seeded(2, Activation, 2).key,
               Seeded(2, Authentication, 3).key,
               Seeded(1, Activation, 4).key}
  /\ now = 0
  /\ config = [limiter |-> [rps |-> DefaultRps, burst |-> DefaultBurst,
                            enabled |-> FALSE]]
  /\ mu = ""
  /\ clients = [ip \in IPs |-> NoClient]
  /\ kept = [ip \in IPs |-> NoClient]
  /\ sweep = [pc |-> "sleep", wake |-> SweepInterval]
  /\ req = [r \in Reqs |-> NoRequest]
  /\ admitted = [ip \in IPs |-> 0]
  /\ served = 0

\* the tokens table when the process started
InitialTokens ==
  {Seeded(2, Activation, 1).row, Seeded(2, Activation, 2).row,
   Seeded(2, Authentication, 3).row, Seeded(1, Activation, 4).row}

\* the tokens a request body may carry: bob's activation tokens, his
\* authentication token, ann's activation token, a token nobody was given
ActivationBodies ==
  {Plaintext(1), Plaintext(2), Plaintext(3), Plaintext(4), Guess}

NextActivate ==
  \/ \E r \in Reqs, ip \in OneIP :
       Receive(r, ip, <<>>, Route("activateUser", "none", ""))
  \/ \E r \in Reqs : RateLimitEnter(r)
  \/ \E r \in Reqs : Authenticate(r)
  \/ \E r \in Reqs, p \in ActivationBodies : ActivateUser(r, p)
  \/ \E r \in Reqs : Finish(r)

SpecActivate == InitActivate /\ [][NextActivate]_vars

----------------------------------------------------------------------------
(* The movie routes: requests of ann, activated, with her token            *)

\* routes(), lines 57-62: GET /v1/movies, POST /v1/movies, and GET, PATCH
\* and DELETE /v1/movies/:id
MovieRoutes ==
  {Route("listMovies", "requirePermission", MoviesRead),
   Route("createMovie", "requirePermission", MoviesWrite),
   Route("showMovie", "requirePermission", MoviesRead),
   Route("updateMovie", "requirePermission", MoviesWrite),
   Route("deleteMovie", "requirePermission", MoviesWrite)}

\* the doc comment of routes(), lines 16-31: the permission listed for the
\* route of each handler
DocumentedPermission(handler) ==
  IF handler = "createMovie" THEN MoviesWrite ELSE MoviesRead

\* ann is activated, holds any of the permissions and an authentication
\* token
InitMovies ==
  /\ db = "up"
  /\ srv = Listening
  /\ mails = {}
  /\ movies = [i \in MovieIDs |-> NoMovieRow]
  /\ caller = [c \in Callers |-> IdleCaller]
  /\ users = RegisteredUsers(TRUE)
  /\ \E codes \in SUBSET PermissionCodes :
       permissions = {<<1, c>> : c \in codes} \cup {<<2, MoviesRead>>}
  /\ tokens = {Seeded(1, Authentication, 1).row}
  /\ issued = {Seeded(1, Authentication, 1).key}
  /\ now = 0
  /\ config = [limiter |-> [rps |-> DefaultRps, burst |-> DefaultBurst,
                            enabled |-> FALSE]]
  /\ mu = ""
  /\ clients = [ip \in IPs |-> NoClient]
  /\ kept = [ip \in IPs |-> NoClient]
  /\ sweep = [pc |-> "sleep", wake |-> SweepInterval]
  /\ req = [r \in Reqs |-> NoRequest]
  /\ admitted = [ip \in IPs |-> 0]
  /\ served = 0

NextMovies ==
  \/ \E r \in Reqs, ip \in OneIP, h \in DeadlineHeaders, rt \in MovieRoutes :
       Receive(r, ip, h, rt)
  \/ \E r \in Reqs : RateLimitEnter(r)
  \/ \E r \in Reqs : Authenticate(r)
  \/ \E r \in Reqs : RequireAuthenticatedUser(r)
  \/ \E r \in Reqs : RequireActivatedUser(r)
  \/ \E r \in Reqs : RequirePermission(r)
  \/ \E r \in Reqs : NextHandler(r)
  \/ \E r \in Reqs : Finish(r)

SpecMovies == InitMovies /\ [][NextMovies]_vars

----------------------------------------------------------------------------
(* Accounts: concurrent requests for POST /v1/users, POST                  *)
(* /v1/tokens/activation and PUT /v1/users/activated                       *)

\* ann is registered and activated, and holds no token; nobody else is
\* registered
InitAccounts ==
  /\ db = "up"
  /\ srv = Listening
  /\ mails = {}
  /\ movies = [i \in MovieIDs |-> NoMovieRow]
  /\ caller = [c \in Callers |-> IdleCaller]
  /\ users = [i \in UserIDs |->
                IF i = 1 THEN RegisteredUsers(TRUE)[1] ELSE NoUserRow]
  /\ permissions = {<<1, MoviesRead>>}
  /\ tokens = {}
  /\ issued = {}
  /\ now = 0
  /\ config = [limiter |-> [rps |-> DefaultRps, burst |-> DefaultBurst,
                            enabled |-> FALSE]]
  /\ mu = ""
  /\ clients = [ip \in IPs |-> NoClient]
  /\ kept = [ip \in IPs |-> NoClient]
  /\ sweep = [pc |-> "sleep", wake |-> SweepInterval]
  /\ req = [r \in Reqs |-> NoRequest]
  /\ admitted = [ip \in IPs |-> 0]
  /\ served = 0

AccountRoutes ==
  {Route("registerUser", "none", ""),
   Route("createActivationToken", "none", ""),
   Route("activateUser", "none", "")}

\* the tokens a request for PUT /v1/users/activated may carry
AccountBodies == {Plaintext(1), Plaintext(2), Guess}

NextAccounts ==
  \/ \E r \in Reqs, ip \in OneIP, rt \in AccountRoutes :
       ReceiveIssuing(r, ip, <<>>, rt)
  \/ \E r \in Reqs : RateLimitEnter(r)
  \/ \E r \in Reqs : Authenticate(r)
  \/ \E r \in Reqs, n \in OneName, e \in BodyEmails, pw \in Passwords :
       RegisterUser(r, n, e, pw)
  \/ \E r \in Reqs, rnd \in NextRandom : RegisterUserNew(r, rnd)
  \/ \E r \in Reqs : RegisterUserPermit(r)
  \/ \E r \in Reqs, e \in BodyEmails : CreateActivationTokenLookup(r, e)
  \/ \E r \in Reqs, rnd \in NextRandom : CreateActivationTokenNew(r, rnd)
  \/ \E r \in Reqs, p \in AccountBodies : ActivateUser(r, p)
  \/ \E r \in Reqs : WriteAccepted(r)
  \/ \E r \in Reqs : ReturnAccepted(r)
  \/ \E m \in mails, result \in MailResults : MailSend(m, result)
  \/ \E r \in Reqs : Finish(r)

SpecAccounts == InitAccounts /\ [][NextAccounts]_vars

----------------------------------------------------------------------------
(* Panics *)

\* what a goroutine may panic with: the panic of contextGetUser and a
\* runtime error
PanicValues == {"missing user value in request context", "runtime error"}

\* the code serving the request panics, in rateLimit, authenticate, a guard
\* or a handler; the stack unwinds to the deferred function of recoverPanic
\* (a mutex the goroutine holds stays locked)
Panic(r, value) ==
  /\ req[r].pc \notin {"none", "done"}
  /\ req' = [req EXCEPT ![r] = recoverPanic(@, value)]
  /\ UNCHANGED <<dbVars, limVars>>

NextPanic ==
  \/ NextThrottle
  \/ \E r \in OneReq, v \in PanicValues : Panic(r, v)

\* the whole chain, with panics at any place in it
SpecPanic == InitThrottle /\ [][NextPanic]_vars

----------------------------------------------------------------------------
(* The mutex of rateLimit: concurrent requests, the sweep, and handlers    *)
(* that answer, block or panic                                             *)

\* next.ServeHTTP of rateLimit panics
DownstreamPanic(r, value) ==
  /\ req[r].pc = "authenticate"
  /\ Panic(r, value)

NextMutex ==
  \/ TickMinute
  \/ \E r \in Reqs, ip \in OneIP, addrOK \in BOOLEAN : Arrive(r, ip, addrOK)
  \/ \E r \in Reqs : RateLimitEnter(r)
  \/ \E r \in Reqs : RateLimitLock(r)
  \/ \E r \in Reqs : RateLimitLookup(r)
  \/ \E r \in Reqs : RateLimitCreate(r)
  \/ \E r \in Reqs : RateLimitSeen(r)
  \/ \E r \in Reqs : RateLimitAllow(r)
  \/ \E r \in Reqs : RateLimitUnlock(r)
  \/ \E r \in Reqs : RateLimitExceeded(r)
  \/ \E r \in Reqs : Downstream(r)
  \/ \E r \in Reqs : DownstreamPanic(r, "runtime error")
  \/ \E r \in Reqs : Finish(r)
  \/ SweepLock
  \/ SweepScan
  \/ SweepUnlock

\* a goroutine that holds the mutex goes on, and a goroutine that waits for
\* the mutex gets it (sync.Mutex hands a starving waiter the lock); a
\* handler behind rateLimit need never answer, and the clock need not go on
SpecMutex ==
  /\ InitSweep
  /\ [][NextMutex]_vars
  /\ \A r \in Reqs : SF_vars(RateLimitLock(r))
  /\ \A r \in Reqs : WF_vars(RateLimitCritical(r))
  /\ SF_vars(SweepLock)
  /\ WF_vars(SweepScan)
  /\ WF_vars(SweepUnlock)

----------------------------------------------------------------------------
(* Responses: the handlers that answer 202 and send a mail, with panics at *)
(* any place, also after the handler has written                           *)

NextResponses ==
  \/ NextMail
  \/ \E r \in Reqs : Panic(r, "runtime error")

SpecResponses == InitMail /\ [][NextResponses]_vars

----------------------------------------------------------------------------
(* C1 *)

\* the record a caller's struct refers to
HeldID(c) ==
  IF caller[c].kind = "movie" THEN caller[c].movie.ID ELSE caller[c].user.ID

StoredRow(c) ==
  IF caller[c].kind = "movie" THEN movies[HeldID(c)] ELSE users[HeldID(c)]

\* both callers read the same record at the same version and both have
\* called Update holding that version
BothUpdatedFrom(c1, c2, kind) ==
  /\ c1 # c2
  /\ caller[c1].pc = "updated" /\ caller[c2].pc = "updated"
  /\ caller[c1].kind = kind /\ caller[c2].kind = kind
  /\ HeldID(c1) = HeldID(c2)
  /\ caller[c1].callVersion = caller[c2].callVersion

ExactlyOneWins(c1, c2) ==
  /\ \/ caller[c1].err = Nil /\ caller[c2].err = ErrEditConflict
     \/ caller[c2].err = Nil /\ caller[c1].err = ErrEditConflict
  /\ StoredRow(c1).version = caller[c1].callVersion + 1

\* C1: two callers that read the same movie or user at version v and each
\* call Update holding v: exactly one Update succeeds and leaves the stored
\* version at v+1, the other returns ErrEditConflict.
C1_ExactlyOneUpdateSucceeds ==
  \A c1, c2 \in Callers, kind \in {"movie", "user"} :
    BothUpdatedFrom(c1, c2, kind) => ExactlyOneWins(c1, c2)

\* the movie half of C1
C1_MovieExactlyOneUpdateSucceeds ==
  \A c1, c2 \in Callers :
    BothUpdatedFrom(c1, c2, "movie") => ExactlyOneWins(c1, c2)

C1_MovieWitness ==
  \E c1, c2 \in Callers :
    /\ BothUpdatedFrom(c1, c2, "movie")
    /\ caller[c1].err = Nil /\ caller[c2].err = ErrEditConflict

\* both callers hold user 1 at version 1 and both have called Update
C1_UserWitness ==
  \E c1, c2 \in Callers : BothUpdatedFrom(c1, c2, "user")

----------------------------------------------------------------------------
(* C2 *)

\* the request is between mu.Lock and mu.Unlock
InCritical(r) == req[r].pc \in {"lookup", "create", "seen", "allow", "unlock"}

SweepInCritical == sweep.pc \in {"scan", "unlock"}

----------------------------------------------------------------------------
(* C3 *)

\* no token has been refilled since the process started
NoRefillYet == now * config.limiter.rps < Token

\* C3: of the requests a client sends within a window too short for any
\* refill, exactly the first burst are admitted and every later one is
\* rejected; with rate 2/s and burst 4 the first 4 of 5 are admitted.
C3_BurstThenReject ==
  config.limiter.enabled /\ NoRefillYet =>
    \A ip \in IPs :
      clients[ip].exists =>
        /\ clients[ip].allowed
             = Min(clients[ip].allowed + clients[ip].denied,
                   config.limiter.burst)
        /\ admitted[ip] = clients[ip].allowed

\* five rapid requests of one client under the defaults: four admitted, the
\* fifth rejected
C3_Witness ==
  \E ip \in IPs :
    /\ config.limiter.rps = DefaultRps /\ config.limiter.burst = DefaultBurst
    /\ NoRefillYet /\ now > 0
    /\ clients[ip].allowed = DefaultBurst /\ clients[ip].denied = 1
    /\ \E r \in Reqs : req[r].ip = ip /\ req[r].status = 429

----------------------------------------------------------------------------
(* C4 *)

\* the request has left authenticate
PastAuthenticate(r) == req[r].pc \notin {"none", "rateLimit", "authenticate"}

Answered(r, resp) ==
  /\ req[r].pc = "done"
  /\ req[r].status = resp.status
  /\ req[r].msg = resp.msg

\* C4: a request without a credential for a route wrapped with
\* requirePermission or requireActivatedUser is answered 401 "you must be
\* authenticated ..."; its handler is not invoked, the permissions are not
\* queried and the answer is never a 403.
C4_AnonymousGets401 ==
  \A r \in Reqs :
    /\ req[r].header = <<>>
    /\ req[r].route.guard \in {"requirePermission", "requireActivatedUser"}
    => /\ req[r].handled = 0
       /\ req[r].loads = 0
       /\ req[r].status # 403
       /\ req[r].pc = "done" => Answered(r, authenticationRequiredResponse)

C4_Witness ==
  \E r \in Reqs :
    /\ req[r].header = <<>>
    /\ req[r].route.guard = "requirePermission"
    /\ req[r].forwarded = 1
    /\ Answered(r, authenticationRequiredResponse)

----------------------------------------------------------------------------
(* C5 *)

\* the token of the request resolved to a user that is not activated
ResolvedNotActivated(r) ==
  /\ req[r].ctx.set
  /\ req[r].ctx.ptr = "row"
  /\ req[r].lookups = 1
  /\ ~req[r].ctx.user.Activated

\* C5: a request whose token resolves to a user that is not activated, for a
\* route wrapped with requireAuthenticatedUser, requireActivatedUser or
\* requirePermission, is answered 403 "... must be activated ..."; its
\* handler is not invoked and the permissions are not loaded.
C5_NotActivatedGets403 ==
  \A r \in Reqs :
    /\ ResolvedNotActivated(r)
    /\ req[r].route.guard \in {"requireAuthenticatedUser",
                               "requireActivatedUser", "requirePermission"}
    => /\ req[r].handled = 0
       /\ req[r].loads = 0
       /\ req[r].pc = "done" => Answered(r, activationRequiredResponse)

C5_Witness ==
  \E r \in Reqs :
    /\ ResolvedNotActivated(r)
    /\ req[r].route.guard = "requireAuthenticatedUser"
    /\ Answered(r, activationRequiredResponse)

----------------------------------------------------------------------------
(* C6 *)

\* the user in the request is a stored, activated user
ActivatedPrincipal(r) ==
  /\ req[r].ctx.set
  /\ req[r].ctx.ptr # "AnonymousUser"
  /\ req[r].ctx.user.Activated

\* the stored permissions of the user in the request contain the code of
\* the route
HoldsCode(r) == <<req[r].ctx.user.ID, req[r].route.code>> \in permissions

\* C6: requirePermission(c, next) calls next if and only if the user in the
\* request is not anonymous, is activated and holds c; an activated user
\* that does not hold c is answered 403 "... necessary permissions ..." and
\* next is not called.
C6_ForwardsIffPermitted ==
  \A r \in Reqs :
    req[r].route.guard = "requirePermission" =>
      /\ req[r].handled \in {0, 1}
      /\ req[r].handled = 1 => ActivatedPrincipal(r) /\ HoldsCode(r)
      /\ req[r].pc = "done" =>
           /\ ActivatedPrincipal(r) /\ HoldsCode(r) => req[r].handled = 1
           /\ ActivatedPrincipal(r) /\ ~HoldsCode(r) =>
                Answered(r, permissionRequiredResponse)

\* ann holds movies:write alone: forwarded for movies:write
C6_Witness ==
  \E r \in Reqs :
    /\ req[r].route.guard = "requirePermission"
    /\ req[r].route.code = MoviesWrite
    /\ <<req[r].ctx.user.ID, MoviesRead>> \notin permissions
    /\ req[r].pc = "done" /\ req[r].handled = 1 /\ req[r].loads = 1

----------------------------------------------------------------------------
(* C7 *)

\* C7: a request without an Authorization header is not rejected by
\* authenticate: the anonymous user is put into its context and next is
\* called exactly once, without a token lookup.
C7_NoHeaderIsAnonymous ==
  \A r \in Reqs :
    req[r].header = <<>> /\ PastAuthenticate(r) =>
      /\ req[r].ctx = AnonymousUser
      /\ req[r].forwarded = 1
      /\ req[r].lookups = 0
      /\ ~Answered(r, invalidAuthenticationTokenResponse)

C7_Witness ==
  \E r \in Reqs :
    /\ req[r].header = <<>>
    /\ req[r].route.handler = "healthcheck"
    /\ req[r].pc = "done" /\ req[r].status = 200 /\ req[r].handled = 1

----------------------------------------------------------------------------
(* C8 *)

\* the header is exactly "Bearer <token>" with a token of 26 bytes
IsBearerToken(header) ==
  /\ Len(header) >= 3
  /\ header[1] = Piece("Bearer", 0, 6)
  /\ header[2] = Space
  /\ \A i \in 3..Len(header) : header[i] # Space
  /\ ByteLen(SubSeq(header, 3, Len(header))) = 26

\* C8: a request whose Authorization header is not empty and not exactly
\* "Bearer <token>" with a token of 26 bytes is answered 401 "invalid
\* authentication token" by authenticate: no lookup, no user in the context,
\* next not called.
C8_MalformedHeaderGets401 ==
  \A r \in Reqs :
    /\ req[r].header # <<>>
    /\ ~IsBearerToken(req[r].header)
    /\ PastAuthenticate(r)
    => /\ Answered(r, invalidAuthenticationTokenResponse)
       /\ req[r].lookups = 0
       /\ ~req[r].ctx.set
       /\ req[r].forwarded = 0
       /\ req[r].handled = 0

\* a token of 25 bytes
C8_Witness ==
  \E r \in Reqs :
    /\ req[r].header = BearerHeader(Short)
    /\ Answered(r, invalidAuthenticationTokenResponse)

----------------------------------------------------------------------------
(* C9 *)

\* the time to live of a token of the scope: 72h and 24h
TimeToLive(scope) == IF scope = Activation THEN 72 * Hour ELSE 24 * Hour

\* the header of the request carries the plaintext as its bearer token
Bears(r, plaintext) == req[r].header = BearerHeader(plaintext)

\* C9 as stated: a token issued at time t for a user with a scope is found,
\* with its user, by a lookup with its scope at every time before t + ttl
\* unless it was deleted, and is not found at any time after t + ttl;
\* authenticate answers a well-formed token that has expired or was never
\* issued with 401 "invalid authentication token" and does not call next.
C9_TokenLivesForItsTTL ==
  /\ \A k \in issued :
       LET found == UserModelGetForToken(users, tokens, k.scope,
                                         k.plaintext, now)
       IN  /\ now < k.at + TimeToLive(k.scope) /\ ~k.deleted =>
                found.err = Nil /\ found.user.ID = k.user
           /\ now > k.at + TimeToLive(k.scope) =>
                found.err = ErrRecordNotFound
  /\ \A r \in Reqs :
       /\ IsBearerToken(req[r].header)
       /\ PastAuthenticate(r)
       /\ \A k \in issued :
            Bears(r, k.plaintext) =>
              req[r].authAt > k.at + TimeToLive(k.scope)
       => /\ Answered(r, invalidAuthenticationTokenResponse)
          /\ req[r].forwarded = 0
          /\ req[r].handled = 0

\* the end of the life of a token issued at time t, to the whole second
WholeSecond(t) ==
  IF t % 1000 >= 500 THEN t - (t % 1000) + 1000 ELSE t - (t % 1000)

EndOfLife(k) == WholeSecond(k.at + TimeToLive(k.scope))

\* C9, amended: a token issued at time t for a user with a scope is found,
\* with its user, by a lookup with its scope at every time before t + ttl
\* rounded to the whole second unless it was deleted, and is not found at
\* any time after that; authenticate answers a well-formed token that has
\* so expired or was never issued with 401 "invalid authentication token"
\* and does not call next.
C9_TokenLivesToTheWholeSecond ==
  /\ \A k \in issued :
       LET found == UserModelGetForToken(users, tokens, k.scope,
                                         k.plaintext, now)
       IN  /\ now < EndOfLife(k) /\ ~k.deleted =>
                found.err = Nil /\ found.user.ID = k.user
           /\ now > EndOfLife(k) => found.err = ErrRecordNotFound
  /\ \A r \in Reqs :
       /\ IsBearerToken(req[r].header)
       /\ PastAuthenticate(r)
       /\ \A k \in issued :
            Bears(r, k.plaintext) => req[r].authAt > EndOfLife(k)
       => /\ Answered(r, invalidAuthenticationTokenResponse)
          /\ req[r].forwarded = 0
          /\ req[r].handled = 0

\* an authentication token issued a quarter second after the start and
\* presented after its life, while an activation token is still alive
C9_Witness ==
  \E r \in Reqs, k, j \in issued :
    /\ k.scope = Authentication
    /\ k.at % 1000 # 0
    /\ Bears(r, k.plaintext)
    /\ req[r].authAt > EndOfLife(k)
    /\ Answered(r, invalidAuthenticationTokenResponse)
    /\ j.scope = Activation
    /\ k.at < now /\ now < EndOfLife(j)

----------------------------------------------------------------------------
(* C10 *)

\* the token was alive at time t
Live(k, t) == k.at <= t /\ t < k.at + TimeToLive(k.scope) /\ ~k.deleted

\* C10: a live activation token sent as the bearer token does not
\* authenticate the request (401 from authenticate, next not called); a
\* live authentication token sent to activateUser activates nobody (422
\* "invalid or expired token", the users table as it was).
C10_TokenOnlyInItsScope ==
  \A r \in Reqs, k \in issued :
    /\ /\ k.scope = Activation
       /\ Bears(r, k.plaintext)
       /\ PastAuthenticate(r)
       /\ Live(k, req[r].authAt)
       => /\ Answered(r, invalidAuthenticationTokenResponse)
          /\ req[r].forwarded = 0
          /\ ~req[r].ctx.set
    /\ /\ k.scope = Authentication
       /\ req[r].route.handler = "activateUser"
       /\ req[r].handled = 1
       /\ req[r].token = k.plaintext
       /\ Live(k, req[r].lookupAt)
       => /\ Answered(r, failedValidationResponse("invalid or expired token"))
          /\ users = req[r].was

\* bob's live authentication token sent to activateUser
C10_Witness ==
  \E r \in Reqs, k \in issued :
    /\ k.scope = Authentication /\ k.user = 2
    /\ req[r].route.handler = "activateUser"
    /\ req[r].handled = 1
    /\ req[r].token = k.plaintext
    /\ Live(k, req[r].lookupAt)
    /\ req[r].status = 422

----------------------------------------------------------------------------
(* C11 *)

\* Allow has refused the request and the mutex is released or about to be
Throttled(r) ==
  /\ config.limiter.enabled
  /\ req[r].addrOK
  /\ ~req[r].ok
  /\ req[r].pc \notin {"none", "rateLimit", "lock", "lookup", "create",
                       "seen", "allow"}

\* C11: a request the rate limiter rejects is answered 429 "rate limit
\* exceeded" and nothing behind rateLimit runs for it: no token lookup, no
\* user in the context, no guard, no handler, and never a 401 or a 403.
C11_ThrottledGets429 ==
  \A r \in Reqs :
    Throttled(r) =>
      /\ req[r].lookups = 0
      /\ req[r].forwarded = 0
      /\ req[r].loads = 0
      /\ req[r].handled = 0
      /\ ~req[r].ctx.set
      /\ req[r].status \notin {401, 403}
      /\ req[r].pc = "done" =>
           /\ Answered(r, rateLimitExceededReponse)
           /\ req[r].written = <<rateLimitExceededReponse>>

\* the burst is used up and a request with a token nobody was given, for a
\* route behind requirePermission, is answered 429
C11_Witness ==
  \E r \in Reqs :
    /\ Throttled(r)
    /\ req[r].header = BearerHeader(Guess)
    /\ req[r].route.guard = "requirePermission"
    /\ admitted[req[r].ip] = config.limiter.burst
    /\ Answered(r, rateLimitExceededReponse)

----------------------------------------------------------------------------
(* C12 *)

----------------------------------------------------------------------------
(* C13 *)

\* the movie the caller holds exists and its stored version is not the
\* version the caller holds
HoldsStaleMovie(c) ==
  /\ caller[c].kind = "movie"
  /\ caller[c].movie.ID \in DOMAIN movies
  /\ movies[caller[c].movie.ID].exists
  /\ movies[caller[c].movie.ID].version # caller[c].movie.Version

----------------------------------------------------------------------------
(* C14 *)

\* the step is a successful Update of the record id by caller c
MovieUpdated(c, id) ==
  /\ \E t \in Titles : CallMovieUpdate(c, t)
  /\ caller[c].movie.ID = id
  /\ caller'[c].err = Nil

UserUpdated(c, id) ==
  /\ \E n \in Names, a \in BOOLEAN : CallUserUpdate(c, n, a)
  /\ caller[c].user.ID = id
  /\ caller'[c].err = Nil

\* the last Update of caller c succeeded and the record is as it left it
LeftByUpdateOf(c, row) ==
  /\ caller[c].pc = "updated"
  /\ caller[c].err = Nil
  /\ row.exists
  /\ row.version = caller[c].callVersion + 1

----------------------------------------------------------------------------
(* C15 *)

\* activateUser has found the user of its token, called Users.Update and
\* answered
UpdateCalled(r) ==
  /\ req[r].route.handler = "activateUser"
  /\ req[r].pc = "done"
  /\ req[r].user.ID # 0

----------------------------------------------------------------------------
(* C17 *)

----------------------------------------------------------------------------
(* C18 *)

----------------------------------------------------------------------------
(* C16 *)

\* the body of the request is well formed
WellFormedCredentials(q) ==
  ValidEmail(q.email) /\ ValidPasswordPlaintext(q.password)

\* no user has the email of the body
UnknownEmail(q) ==
  UserModelGetByEmail(users, q.email).err = ErrRecordNotFound

\* a user has the email of the body and another password
WrongPassword(q) ==
  LET got == UserModelGetByEmail(users, q.email)
  IN  got.err = Nil /\ got.user.Password # Bcrypt(q.password)

\* C16: createAuthenticationToken answers a well-formed body whose email
\* no user has, and one whose password is not the user's, with the same
\* single response, 401 "invalid authentication credentials", and at once:
\* the handler returns and neither the tokens table nor the tokens handed
\* out change.
C16_UnknownUserLikeWrongPassword ==
  [][\A r \in Reqs :
       /\ req[r].route.handler = "createAuthenticationToken"
       /\ AtStage(r, "handler")
       /\ req'[r] # req[r]
       /\ WellFormedCredentials(req'[r])
       /\ UnknownEmail(req'[r]) \/ WrongPassword(req'[r])
       => /\ req'[r].pc = "done"
          /\ req'[r].written = <<invalidCredentialsResponse>>
          /\ req'[r].status = 401
          /\ req'[r].msg = "invalid authentication credentials"
          /\ req'[r].token = <<>>
          /\ tokens' = tokens
          /\ issued' = issued]_vars

\* one request named an unknown address, another gave ann's address with a
\* password that is not hers; both were answered, alike
C16_Witness ==
  \E r1, r2 \in Reqs :
    /\ req[r1].route.handler = "createAuthenticationToken"
    /\ req[r2].route.handler = "createAuthenticationToken"
    /\ req[r1].pc = "done" /\ req[r2].pc = "done"
    /\ WellFormedCredentials(req[r1]) /\ UnknownEmail(req[r1])
    /\ WellFormedCredentials(req[r2]) /\ WrongPassword(req[r2])
    /\ req[r1].written = req[r2].written
    /\ req[r1].status = 401

----------------------------------------------------------------------------
(* C19 *)

\* C19: whatever the mail sent in the background does, and whenever it
\* does it, the request that issued the token is answered 202 exactly
\* once: what registerUser and createActivationToken have written when
\* they return is the one 202 response, and no error response after it.
C19_MailNeverChangesResponse ==
  \A r \in Reqs :
    /\ req[r].route.handler \in {"registerUser", "createActivationToken"}
    /\ req[r].pc = "done"
    /\ req[r].token # <<>>
    => req[r].written = <<AcceptedResponse(req[r].route.handler)>>

----------------------------------------------------------------------------
(* C20 *)

\* the token is a row of the tokens table
Persisted(plaintext) == \E row \in tokens : row.hash = Sha256(plaintext)

\* C20: a storage failure is not swallowed: when the INSERT of a new
\* token fails TokenModel.New returns the error and the handler answers
\* 500, so that no token that is not in the tokens table is handed out,
\* neither in the response of registerUser, createActivationToken or
\* createAuthenticationToken nor to the mail sent for it.
C20_StorageFailureNotSwallowed ==
  /\ \A r \in Reqs :
       /\ req[r].route.handler \in {"registerUser", "createActivationToken",
                                     "createAuthenticationToken"}
       /\ req[r].token # <<>>
       => Persisted(req[r].token)
  /\ \A m \in mails : Persisted(m.token)

----------------------------------------------------------------------------
(* C21 *)

\* the handler of r is at a statement that calls a model
AtStoreCall(r) ==
  req[r].pc \in {"registerUser.new", "registerUser.permit",
                 "createActivationToken.new",
                 "createAuthenticationToken.new",
                 "activateUser.update", "activateUser.delete"}

\* in this step a model makes a store call for r: GetForToken in
\* authenticate, GetAllForUser in requirePermission, GetByEmail for a
\* well-formed body, or the call of a later statement of a handler
StoreCall(r) ==
  /\ req'[r] # req[r]
  /\ \/ req'[r].lookups > req[r].lookups
     \/ req'[r].loads > req[r].loads
     \/ AtStoreCall(r)
     \/ /\ AtStage(r, "handler")
        /\ req[r].route.handler = "createAuthenticationToken"
        /\ WellFormedCredentials(req'[r])

\* C21: a store call of the user, token and permission models that
\* exceeds its deadline is reported as a server error: the request ends
\* with the one 500 response, whatever the call was (never 401, 404, 409
\* or a success), the call is made once and no table changes.
C21_TimeoutIsServerError ==
  [][\A r \in Reqs :
       DeadlineExceeded /\ StoreCall(r)
       => /\ req'[r].pc = "done"
          /\ req'[r].written = <<serverErrorResponse>>
          /\ req'[r].lookups <= req[r].lookups + 1
          /\ req'[r].loads <= req[r].loads + 1
          /\ users' = users
          /\ tokens' = tokens
          /\ permissions' = permissions]_vars

----------------------------------------------------------------------------
(* C22 *)

\* the client of ip is in the map and was last seen longer ago than the
\* idle threshold
IdleClient(ip) ==
  clients[ip].exists /\ now - clients[ip].lastSeen > IdleThreshold

\* the sweep is about to scan, or wakes before the clock of the model ends
SweepDue ==
  \/ sweep.pc = "scan"
  \/ sweep.pc = "sleep" /\ sweep.wake <= MaxMinutes * Minute

\* C22: a client idle for longer than the threshold of three minutes is
\* gone from the map after the scan of the first sweep that follows, and a
\* sweep does follow: the goroutine never ends, sleeps a minute after each
\* scan, and an idle client does not stay in the map.
C22_IdleClientSwept ==
  /\ [][sweep.pc = "scan" /\ sweep'.pc = "unlock"
          => \A ip \in IPs : IdleClient(ip) => ~clients'[ip].exists]_vars
  /\ [][sweep.pc = "unlock" /\ sweep'.pc # "unlock"
          => sweep' = [pc |-> "sleep", wake |-> now + SweepInterval]]_vars
  /\ [](sweep.pc \in {"sleep", "scan", "unlock"})
  /\ \A ip \in IPs : (IdleClient(ip) /\ SweepDue) ~> ~IdleClient(ip)

\* the sweep has just removed a client that had been admitted
C22_Witness ==
  \E ip \in IPs :
    /\ sweep.pc = "unlock"
    /\ admitted[ip] > 0
    /\ ~clients[ip].exists
    /\ now > IdleThreshold

----------------------------------------------------------------------------
(* C23 *)

\* C23: with the limiter disabled a request that reaches rateLimit goes on
\* to the next stage, whatever its remote address, and the requests leave
\* the map of clients and the mutex alone: the map stays empty, no
\* last-seen time is set, no token is taken and no request is counted as
\* admitted by a bucket.
C23_DisabledLimiterForwards ==
  /\ [][\A r \in Reqs :
          ~config.limiter.enabled /\ req[r].pc = "rateLimit"
          /\ req'[r] # req[r]
          => /\ req'[r].pc = "authenticate"
             /\ req'[r].written = <<>>
             /\ clients' = clients
             /\ mu' = mu]_vars
  /\ [](~config.limiter.enabled
          => /\ clients = [ip \in IPs |-> NoClient]
             /\ admitted = [ip \in IPs |-> 0]
             /\ mu \notin Reqs
             /\ \A r \in Reqs :
                  req[r].pc \in {"none", "rateLimit", "authenticate",
                                 "done"})

\* with the limiter disabled, a request whose remote address does not
\* parse has passed rateLimit and been answered by what follows
C23_Witness ==
  \E r \in Reqs :
    /\ ~config.limiter.enabled
    /\ ~req[r].addrOK
    /\ req[r].pc = "done"
    /\ req[r].status = 200

----------------------------------------------------------------------------
(* C24 *)

\* a row of the users table has the address, whatever the case of letters
EmailTaken(tbl, email) ==
  \E i \in DOMAIN tbl : tbl[i].exists /\ CiText(tbl[i].email) = CiText(email)

DuplicateEmailResponse ==
  failedValidationResponse("a user with this email address already exists")

\* registerUser has called Users.Insert for r
InsertCalled(r) ==
  /\ req[r].route.handler = "registerUser"
  /\ req[r].handled > 0
  /\ WellFormedCredentials(req[r])

\* C24: no two rows of the users table have the same email, letters
\* compared without case.  A registration whose email is taken, be it by a
\* concurrent registration, inserts nothing, is answered 422 for a
\* duplicate email and creates no token, no permission and no mail; of two
\* registrations in flight with the same email at most one has a user.
C24_EmailUnique ==
  /\ [](\A i, j \in UserIDs :
          users[i].exists /\ users[j].exists /\ i # j
          => CiText(users[i].email) # CiText(users[j].email))
  /\ [][\A r \in Reqs :
          /\ req[r].route.handler = "registerUser"
          /\ AtStage(r, "handler")
          /\ req'[r] # req[r]
          /\ WellFormedCredentials(req'[r])
          /\ EmailTaken(users, req'[r].email)
          => /\ req'[r].pc = "done"
             /\ req'[r].written = <<DuplicateEmailResponse>>
             /\ req'[r].status = 422
             /\ req'[r].user.ID = 0
             /\ users' = users
             /\ tokens' = tokens
             /\ permissions' = permissions
             /\ mails' = mails]_vars
  /\ [](\A r1, r2 \in Reqs :
          /\ r1 # r2
          /\ InsertCalled(r1) /\ InsertCalled(r2)
          /\ CiText(req[r1].email) = CiText(req[r2].email)
          => req[r1].user.ID = 0 \/ req[r2].user.ID = 0)

\* two registrations with the same address ran concurrently: one has its
\* user, the other has its 422
C24_Witness ==
  \E r1, r2 \in Reqs :
    /\ r1 # r2
    /\ InsertCalled(r1) /\ InsertCalled(r2)
    /\ req[r1].email = "a@x.io" /\ req[r2].email = "A@x.io"
    /\ req[r1].user.ID # 0
    /\ req[r1].pc = "registerUser.new"
    /\ req[r2].pc = "done"
    /\ req[r2].written = <<DuplicateEmailResponse>>
    /\ tokens = {} /\ mails = {}

----------------------------------------------------------------------------
(* C25 *)

\* the Authorization header is there and is not "Bearer <26 bytes>"
MalformedHeader(q) ==
  LET parts == StringsSplit(q.header)
  IN  /\ q.header # <<>>
      /\ \/ Len(parts) # 2
         \/ parts[1] # Str("Bearer", 6)
         \/ parts[2] = <<>>
         \/ ByteLen(parts[2]) # TokenLength

\* the activation token of the body is empty or not of 26 bytes
MalformedToken(q) == q.token = <<>> \/ ByteLen(q.token) # TokenLength

\* the payload has no name, no valid address or no password of 8 to 72
\* bytes
MalformedUser(q) ==
  \/ q.name = ""
  \/ ~ValidEmail(q.email)
  \/ PasswordLen(q.password) < 8
  \/ PasswordLen(q.password) > 72

\* the stage of r that reads the input runs in this step and finds it
\* malformed
RejectsMalformed(r) ==
  /\ req'[r] # req[r]
  /\ \/ req[r].pc = "authenticate" /\ MalformedHeader(req[r])
     \/ /\ AtStage(r, "handler")
        /\ req[r].route.handler = "activateUser"
        /\ MalformedToken(req'[r])
     \/ /\ AtStage(r, "handler")
        /\ req[r].route.handler = "registerUser"
        /\ MalformedUser(req'[r])

\* C25: a request rejected for malformed input, be it a credential of the
\* wrong scheme or length in authenticate, an activation token that is
\* empty or not of 26 bytes, or a user payload that fails ValidateUser,
\* ends with one error response, 401 from authenticate and 422 from the
\* handlers, and no user, token, permission or mail is created, changed or
\* deleted.
C25_MalformedInputChangesNothing ==
  [][\A r \in Reqs :
       RejectsMalformed(r)
       => /\ req'[r].pc = "done"
          /\ Len(req'[r].written) = 1
          /\ req'[r].status
               = IF req[r].pc = "authenticate" THEN 401 ELSE 422
          /\ req[r].pc = "authenticate"
               => /\ req'[r].written
                      = <<invalidAuthenticationTokenResponse>>
                  /\ req'[r].handled = 0
                  /\ req'[r].lookups = 0
          /\ req'[r].user = NoUser
          /\ users' = users
          /\ tokens' = tokens
          /\ permissions' = permissions
          /\ mails' = mails]_vars

\* a header of the wrong scheme was answered 401 and a payload with a
\* password of four bytes 422, and the store is as it was at the start
C25_Witness ==
  \E r1, r2 \in Reqs :
    /\ req[r1].pc = "done" /\ req[r2].pc = "done"
    /\ MalformedHeader(req[r1]) /\ req[r1].status = 401
    /\ req[r2].route.handler = "registerUser"
    /\ req[r2].header = <<>>
    /\ req[r2].name = "bob" /\ req[r2].email = "b@x.io"
    /\ req[r2].password = "pa55"
    /\ req[r2].status = 422
    /\ ~users[2].exists

----------------------------------------------------------------------------
(* C26 *)

\* the plaintext cut or padded to n bytes
Resized(plaintext, n) == <<[plaintext[1] EXCEPT !.len = n]>>

\* the plaintext with bytes changed, at the same length
Altered(plaintext) == <<[plaintext[1] EXCEPT !.text = "altered"]>>

\* C26: every token handed out has a plaintext of exactly 26 bytes, the
\* base32 encoding of 16 random bytes, that passes ValidateTokenPlaintext,
\* and is stored under the SHA-256 of that plaintext: a lookup with the
\* plaintext finds its row.  Cut or extended, the plaintext fails
\* ValidateTokenPlaintext; altered at the same length it has another hash,
\* and a lookup with it finds no row.
C26_TokenRoundTrip ==
  \A k \in issued :
    /\ k.plaintext = Plaintext(k.plaintext[1].id)
    /\ ByteLen(k.plaintext) = 26
    /\ Base32Len(16) = 26
    /\ ValidateTokenPlaintext(k.plaintext)
    /\ ~k.deleted =>
         \E row \in tokens : /\ row.hash = Sha256(k.plaintext)
                              /\ row.user_id = k.user
                              /\ row.scope = k.scope
    /\ \A n \in 0..(26 + 2) :
         n # 26 => ~ValidateTokenPlaintext(Resized(k.plaintext, n))
    /\ ByteLen(Altered(k.plaintext)) = 26
    /\ \A row \in tokens : row.hash # Sha256(Altered(k.plaintext))
    /\ UserModelGetForToken(users, tokens, k.scope, Altered(k.plaintext),
                            now).err = ErrRecordNotFound

\* a token was issued and the request that bore it was authenticated as
\* its user: the lookup by the hash of the plaintext found the row
C26_Witness ==
  \E k \in issued, r \in Reqs :
    /\ k.scope = Authentication
    /\ Bears(r, k.plaintext)
    /\ req[r].ctx.set
    /\ req[r].ctx.user.ID = k.user
    /\ k.user # 0

----------------------------------------------------------------------------
(* C27 *)

\* C27: each movie route is gated by the permission its documentation
\* lists, movies:write for POST /v1/movies and movies:read for the four
\* others: a request of ann, activated and authenticated, is handed to the
\* handler of the route if she holds the listed permission and refused if
\* she does not.
C27_RoutesGatedAsDocumented ==
  \A r \in Reqs :
    /\ req[r].route \in MovieRoutes
    /\ Bears(r, Plaintext(1))
    /\ req[r].pc = "done"
    => (req[r].handled = 1
        <=> <<1, DocumentedPermission(req[r].route.handler)>>
              \in permissions)

----------------------------------------------------------------------------
(* C28 *)

\* C28: the mails sent in the background hold the shutdown back: after
\* SIGINT or SIGTERM serve has not returned while a background task is
\* still running.
C28_ShutdownWaitsForBackground ==
  srv.pc = "returned" => mails = {}

----------------------------------------------------------------------------
(* C29 *)

\* the places of rateLimit, in the order of its lines
RateLimitPlaces ==
  <<"rateLimit", "lock", "lookup", "create", "seen", "allow", "unlock",
    "exceeded">>

\* the stages behind authenticate, outermost first
GuardOrder ==
  <<"requireAuthenticatedUser", "requireActivatedUser", "requirePermission",
    "handler">>

IndexIn(seq, x) == CHOOSE i \in 1..Len(seq) : seq[i] = x

\* how far the goroutine of a request has come: inside recoverPanic, then
\* rateLimit, authenticate, the guards, the handler, and the response
Progress(q) ==
  IF q.pc = "none" THEN 0
  ELSE IF q.pc = "done" THEN 20
  ELSE IF q.pc = "authenticate" THEN 10
  ELSE IF q.pc = "chain" THEN 10 + IndexIn(GuardOrder, Head(q.stages))
  ELSE IndexIn(RateLimitPlaces, q.pc)

TerminalStatus == {429, 401, 403, 500}

\* a step of a request that has been received and has not ended
StageStep(r) ==
  /\ req[r].pc # "none"
  /\ req'[r] # req[r]

\* a request with a terminal response is over: one response written, and,
\* unless a panic was recovered, its handler not called
Terminal(q) ==
  q.status \in TerminalStatus
    => /\ q.pc = "done"
       /\ Len(q.written) = 1
       /\ q.panic = "" => q.handled = 0
       /\ q.status = 429 => q.lookups = 0 /\ q.forwarded = 0 /\ q.loads = 0

\* C29: the goroutine of a request passes recoverPanic, rateLimit,
\* authenticate, the guards of its route and the handler in this order and
\* each at most once: every step takes it to a later place and never back;
\* once a stage has answered 429, 401, 403 or 500 the request is over, no
\* later stage and no handler runs for it, and the only step left is the
\* end of the goroutine.
C29_StagesInOrderOnce ==
  /\ [](\A r \in Reqs :
         /\ Terminal(req[r])
         /\ req[r].pc = "chain" => req[r].stages # <<>>
         /\ req[r].lookups <= 1 /\ req[r].forwarded <= 1
         /\ req[r].loads <= 1 /\ req[r].handled <= 1
         /\ req[r].loads <= req[r].forwarded
         /\ req[r].handled <= req[r].forwarded)
  /\ [][\A r \in Reqs :
          StageStep(r)
          => IF req[r].pc = "done"
             THEN req'[r] = NoRequest
             ELSE Progress(req'[r]) > Progress(req[r])]_vars

\* the request of bob for POST /v1/movies has passed rateLimit, authenticate
\* and the three guards and is refused by requirePermission
C29_Witness ==
  \E r \in Reqs :
    /\ req[r].pc = "done"
    /\ req[r].status = 403
    /\ req[r].route.guard = "requirePermission"
    /\ req[r].lookups = 1 /\ req[r].forwarded = 1 /\ req[r].loads = 1
    /\ req[r].handled = 0
    /\ admitted[req[r].ip] > 0

----------------------------------------------------------------------------
(* C30 *)

\* lines 82-96/103: the places of a request between mu.Lock and mu.Unlock
CriticalPlaces == {"lookup", "create", "seen", "allow", "unlock"}

\* the request waits in mu.Lock
Waiting(r) == req[r].pc = "lock"

\* the sweep waits in mu.Lock
SweepWaiting == sweep.pc = "sleep" /\ now >= sweep.wake

\* C30: a request holds the mutex of the limiter exactly from its lookup in
\* the map to the answer of Allow, and the sweep exactly during its scan;
\* the mutex is released before a response is written and before the next
\* handler is called, for an admitted and for a rejected request, and a
\* request whose RemoteAddr does not parse never takes it.  So a request or
\* a sweep that waits for the mutex gets it, whatever the handlers behind
\* rateLimit do: answer, never answer, or panic.
C30_MutexOnlyAroundDecision ==
  /\ [](\A r \in Reqs :
         /\ mu = r <=> req[r].pc \in CriticalPlaces
         /\ req[r].written # <<>> => mu # r
         /\ ~req[r].addrOK => mu # r /\ ~Waiting(r))
  /\ [](mu = "sweep" <=> sweep.pc \in {"scan", "unlock"})
  /\ \A r \in Reqs : Waiting(r) ~> mu = r
  /\ SweepWaiting ~> mu = "sweep"

\* a request holds the mutex while another is with a handler behind
\* rateLimit and the sweep waits for the mutex
C30_Witness ==
  \E r, q \in Reqs :
    /\ mu = r
    /\ req[q].pc = "authenticate"
    /\ SweepWaiting

----------------------------------------------------------------------------
(* C31 *)

\* the entry of ip leaves the map in this step
Evicted(ip) == clients[ip].exists /\ ~clients'[ip].exists

\* the request passes line 93 in this step, Allow not yet asked
PassesLastSeen(r) == req[r].pc = "seen" /\ req'[r].pc = "allow"

\* C31: an entry leaves the map of clients only in the scan of the sweep
\* and only if its last-seen time lies more than three minutes back; every
\* request that reaches the enabled limiter sets the last-seen time of its
\* client to the present before Allow is asked, whether Allow then admits
\* or rejects it; and the counts and the bucket of a client start afresh
\* only with a new entry, which is made only for a client without one.
C31_EvictedOnlyWhenIdle ==
  /\ [][\A ip \in IPs :
          Evicted(ip)
          => /\ sweep.pc = "scan" /\ mu = "sweep"
             /\ now - clients[ip].lastSeen > IdleThreshold]_vars
  /\ [][\A r \in Reqs :
          PassesLastSeen(r)
          => /\ clients'[req[r].ip].exists
             /\ clients'[req[r].ip].lastSeen = now]_vars
  /\ [](\A r \in Reqs :
         req[r].pc \in {"allow", "unlock"}
         => /\ clients[req[r].ip].exists
            /\ clients[req[r].ip].lastSeen <= now
            /\ mu = r)
  /\ [][\A ip \in IPs :
          clients'[ip].allowed + clients'[ip].denied
            < clients[ip].allowed + clients[ip].denied
          => Evicted(ip)]_vars

\* a request that Allow has rejected, a minute or more after the start:
\* the last-seen time of its client is the present all the same
C31_Witness ==
  \E r \in Reqs :
    /\ req[r].pc = "unlock"
    /\ ~req[r].ok
    /\ now >= Minute
    /\ clients[req[r].ip].denied > 0
    /\ clients[req[r].ip].lastSeen = now

----------------------------------------------------------------------------
(* C32 *)

\* the movie the caller read has been deleted since
HoldsDeletedMovie(c) ==
  /\ caller[c].kind = "movie"
  /\ caller[c].movie.ID \in MovieIDs
  /\ ~movies[caller[c].movie.ID].exists

----------------------------------------------------------------------------
(* C33 *)

\* the activation tokens of user id in the tokens table
ActivationTokensOf(id) ==
  {t \in tokens : t.user_id = id /\ t.scope = Activation}

----------------------------------------------------------------------------
(* C34 *)

\* C34: every request gets exactly one response: on no path through
\* rateLimit, authenticate, the handlers and the helpers of errors.go are a
\* status and a body written a second time for the same request, a panic
\* after the handler has written included.
C34_OneResponsePerRequest ==
  \A r \in Reqs :
    /\ Len(req[r].written) <= 1
    /\ req[r].pc = "done" => Len(req[r].written) = 1

----------------------------------------------------------------------------
(* C35 *)

\* what the request for POST /v1/users has put into the tables: the row of
\* the new user, the activation token and the grant of movies:read
UserStored(r) == req[r].user.ID \in UserIDs /\ users[req[r].user.ID].exists

TokenStored(r) ==
  \E row \in tokens :
    row.user_id = req[r].user.ID /\ row.scope = Activation

GrantStored(r) == <<req[r].user.ID, MoviesRead>> \in permissions

\* C35: registerUser is all or nothing: when its request is over, either
\* the new user, the activation token and the grant of movies:read are all
\* in the tables and the response is 202, or none of the three is and the
\* response is an error.
C35_RegisterAllOrNothing ==
  \A r \in Reqs :
    req[r].route.handler = "registerUser" /\ req[r].pc = "done"
    => \/ /\ req[r].status = 202
          /\ UserStored(r) /\ TokenStored(r) /\ GrantStored(r)
       \/ /\ req[r].status # 202
          /\ ~UserStored(r) /\ ~TokenStored(r) /\ ~GrantStored(r)

----------------------------------------------------------------------------
(* C36 *)

\* C36: the sweep is invisible to admission: for every rate and burst, a
\* request is admitted by the limiter with the sweep if and only if the
\* limiter that keeps every bucket admits it; a client whose entry is made
\* again after its eviction is not admitted where its old bucket would
\* have rejected it.
C36_SweepInvisibleToAdmission ==
  \A r \in Reqs : req[r].ok = req[r].keptOk

\* an empty bucket is full again before the idle threshold has passed
RefillsWhileIdle ==
  config.limiter.burst * Token < IdleThreshold * config.limiter.rps

\* C36, amended: for a rate and burst at which an empty bucket refills
\* completely in less than the three minutes of the idle threshold, the
\* defaults among them, a request is admitted by the limiter with the sweep
\* if and only if the limiter that keeps every bucket admits it.
C36_SweepInvisibleWhenRefilled ==
  RefillsWhileIdle => \A r \in Reqs : req[r].ok = req[r].keptOk

\* the entry of a client has been made again after its eviction, and a
\* request of the client is rejected by both limiters
C36_Witness ==
  \E r \in Reqs :
    /\ RefillsWhileIdle
    /\ req[r].pc = "unlock"
    /\ clients[req[r].ip].allowed < admitted[req[r].ip]
    /\ ~req[r].ok /\ ~req[r].keptOk

----------------------------------------------------------------------------
(* C37 *)

\* the principal that authenticate resolves for the header of a request
Resolved(q) ==
  LET cred == ParseAuthorization(q.header)
  IN  IF cred.kind = "none" THEN q.ctx = AnonymousUser
      ELSE /\ cred.kind = "token"
           /\ q.ctx.ptr = "row"
           /\ q.ctx.user.ID \in UserIDs
           /\ \E k \in issued : /\ k.plaintext = cred.token
                                 /\ k.user = q.ctx.user.ID

\* C37: under recoverPanic(rateLimit(authenticate(router))) a request
\* that authenticate has handed to the router, and so every request at a
\* guard or in a handler, carries a principal in its context, the
\* anonymous one for a request without Authorization header and otherwise
\* the user of the token it bears; no request is answered for the panic
\* "missing user value in request context" of contextGetUser.
C37_PrincipalInContext ==
  \A r \in Reqs :
    /\ req[r].panic # "missing user value in request context"
    /\ req[r].forwarded > 0 => req[r].ctx.set /\ Resolved(req[r])

\* a request that bears an issued token stands at a guard with the user
\* of the token in its context
C37_Witness ==
  \E r \in Reqs :
    /\ req[r].pc = "chain"
    /\ req[r].stages # <<>>
    /\ Head(req[r].stages) \in {"requireActivatedUser", "requirePermission"}
    /\ req[r].ctx.set
    /\ ~IsAnonymous(req[r].ctx)
    /\ Resolved(req[r])

----------------------------------------------------------------------------
(* C38 *)

\* the user id as authenticate puts it into the context of a request
Principal(id) ==
  contextSetUser([ID |-> id, Name |-> users[id].name,
                  Email |-> users[id].email,
                  Password |-> users[id].password_hash,
                  Activated |-> users[id].activated,
                  Version |-> users[id].version])

\* what the guards around the handler of rt, requireAuthenticatedUser,
\* requireActivatedUser and requirePermission, do with a request of the
\* user id
GuardsAnswer(id, rt) ==
  IF authenticatedCheck(Principal(id)) # CallNext
  THEN authenticatedCheck(Principal(id))
  ELSE IF activatedCheck(Principal(id)) # CallNext
  THEN activatedCheck(Principal(id))
  ELSE permissionCheck(
         PermissionModelGetAllForUser(permissions, users, id).permissions,
         rt.code)

\* the user id was made by registerUser, and no request is still busy
\* registering it
Registered(id) ==
  /\ id # 1
  /\ users[id].exists
  /\ \A r \in Reqs :
       req[r].route.handler = "registerUser" /\ req[r].user.ID = id
         => req[r].pc \in {"none", "done"}

----------------------------------------------------------------------------
(* C39 *)

\* the client of the request r that takes the step
ClientOf(r) == IF req[r].pc = "none" THEN req'[r].ip ELSE req[r].ip

\* the request r takes a step
RequestStep(r) == req'[r] # req[r]

\* C39: the state of the limiter is per client and made lazily: a step
\* of a request of client A leaves the entry of every other client as it
\* is, bucket and last-seen time; it makes an entry for A only at the
\* lines 86-90, when the lookup has found none, and never removes one;
\* and a request is rejected only when its own client has been admitted
\* as often as the burst allows, whatever the other clients have used.
C39_LimiterStatePerClient ==
  /\ [][\A r \in Reqs :
          RequestStep(r) =>
            /\ \A other \in IPs \ {ClientOf(r)} :
                 clients'[other] = clients[other]
            /\ \A ip \in IPs :
                 /\ clients[ip].exists => clients'[ip].exists
                 /\ ~clients[ip].exists /\ clients'[ip].exists
                      => /\ req[r].pc = "create"
                         /\ ip = req[r].ip
                         /\ clients'[ip].limiter
                              = NewLimiter(config.limiter.rps,
                                           config.limiter.burst)]_vars
  /\ [](\A r \in Reqs :
          req[r].pc \in {"unlock", "exceeded"} /\ ~req[r].ok
            => admitted[req[r].ip] >= config.limiter.burst)

\* one client has emptied its bucket and had a request rejected; a
\* request of the other client, its entry just made, is admitted
C39_Witness ==
  \E r \in Reqs, busy \in IPs :
    /\ req[r].pc = "unlock"
    /\ req[r].ok
    /\ req[r].ip # busy
    /\ clients[req[r].ip].allowed = 1
    /\ clients[busy].exists
    /\ clients[busy].denied > 0
    /\ clients[busy].limiter.tokens < Token

====
